---- MODULE Spec2Model ----
(***************************************************************************)
(* pid-port: which process owns a listening port, and which ports a        *)
(* process owns.  The model follows the ES-module implementation           *)
(* (portToPid, pidToPorts, allPortsWithPid, portBindings and the helpers   *)
(* they call).                                                             *)
(*                                                                         *)
(* Representation.  A JavaScript string is a sequence of one-character     *)
(* strings, so that the regular expressions, startsWith, localeCompare and *)
(* template literals of the code can be computed character by character.   *)
(* undefined in a string position is the value Undefined, which is         *)
(* different from every string; undefined in a number position (a port     *)
(* or a PID that did not parse) is Absent.                                 *)
(***************************************************************************)
EXTENDS Integers, Sequences, FiniteSets, TLC

VARIABLES
    platform,   \* process.platform, fixed for the life of the process
    pc,         \* position of the public call: idle, list, fallback, done
    call,       \* the public operation being run and its arguments
    running,    \* enumeration / fallback commands started and not yet exited
    started,    \* every command started so far, in order
    outputs,    \* stdout of the primary commands that have exited
    table,      \* what getList returned: lines, addressColumn, pidColumn
    slots,      \* portToPid: one entry per requested port (the promises)
    filter,     \* hostFilter: the filter the call created from its host argument
    result      \* the promise the public call returned

vars == <<platform, pc, call, running, started, outputs, table, slots, filter, result>>

(***************************************************************************)
(* Bounds of the model.                                                    *)
(***************************************************************************)
MaxRows == 2        \* socket rows in one enumeration output
MaxPorts == 2       \* length of the list given to portToPid / pidToPorts
MaxBrackets == 3    \* pairs of brackets around a host given to normalizeHost

(***************************************************************************)
(* Strings.                                                                *)
(***************************************************************************)
Undefined == <<"undefined-value">>
Absent == -1

s_localhost == <<"l", "o", "c", "a", "l", "h", "o", "s", "t">>
s_127_0_0_1 == <<"1", "2", "7", ".", "0", ".", "0", ".", "1">>
s_loop6 == <<":", ":", "1">>
s_mapped == <<":", ":", "f", "f", "f", "f", ":", "1", "2", "7", ".", "0", ".", "0", ".", "1">>
s_any6 == <<":", ":">>
s_star == <<"*">>
s_0_0_0_0 == <<"0", ".", "0", ".", "0", ".", "0">>
s_127x0x0x1 == <<"1", "2", "7", "x", "0", "x", "0", "x", "1">>
s_undefined == <<"u", "n", "d", "e", "f", "i", "n", "e", "d">>
s_empty == <<>>

Bracketed(s) == <<"[">> \o s \o <<"]">>

DigitChars == <<"0", "1", "2", "3", "4", "5", "6", "7", "8", "9">>
Digits == {"0", "1", "2", "3", "4", "5", "6", "7", "8", "9"}
IsDigit(c) == c \in Digits
DigitValue(c) ==
    CASE c = "0" -> 0 [] c = "1" -> 1 [] c = "2" -> 2 [] c = "3" -> 3 [] c = "4" -> 4
      [] c = "5" -> 5 [] c = "6" -> 6 [] c = "7" -> 7 [] c = "8" -> 8 [] c = "9" -> 9
Letters == {"a", "b", "c", "d", "e", "f", "g", "h", "i", "j", "k", "l", "m",
            "n", "o", "p", "q", "r", "s", "t", "u", "v", "w", "x", "y", "z",
            "A", "B", "C", "D", "E", "F", "G", "H", "I", "J", "K", "L", "M",
            "N", "O", "P", "Q", "R", "S", "T", "U", "V", "W", "X", "Y", "Z"}
IsLetter(c) == c \in Letters

StartsWith(s, prefix) ==
    /\ Len(s) >= Len(prefix)
    /\ SubSeq(s, 1, Len(prefix)) = prefix

EndsWith(s, suffix) ==
    /\ Len(s) >= Len(suffix)
    /\ SubSeq(s, Len(s) - Len(suffix) + 1, Len(s)) = suffix

\* s.slice(from) in 1-based positions
From(s, i) == SubSeq(s, i, Len(s))

\* All characters of s from position i on are digits (and there is one).
AllDigitsFrom(s, i) ==
    /\ i <= Len(s)
    /\ \A j \in i..Len(s) : IsDigit(s[j])

\* The end of the maximal run of digits of s that starts at position i.
RECURSIVE DigitRunEnd(_, _)
DigitRunEnd(s, i) ==
    IF i < Len(s) /\ IsDigit(s[i + 1]) THEN DigitRunEnd(s, i + 1) ELSE i

\* Number.parseInt(digits, 10) of a non-empty run of digits
RECURSIVE ParseInt(_)
ParseInt(ds) ==
    IF ds = <<>> THEN 0
    ELSE 10 * ParseInt(SubSeq(ds, 1, Len(ds) - 1)) + DigitValue(ds[Len(ds)])

\* String(n) of a non-negative integer, as a template literal renders it
RECURSIVE ToDigits(_)
ToDigits(n) ==
    IF n < 10 THEN <<DigitChars[n + 1]>>
    ELSE ToDigits(n \div 10) \o <<DigitChars[(n % 10) + 1]>>

(***************************************************************************)
(* String.prototype.localeCompare with the default (ICU root) collation:   *)
(* punctuation sorts before digits, digits before letters; within the      *)
(* characters used in addresses the order is  - , : . " ( ) [ ] * = 0-9    *)
(* a-z.  With no case or accent differences in play the comparison is      *)
(* lexicographic on these ranks, a proper prefix first.                    *)
(***************************************************************************)
CollationOrder ==
    <<"-", ",", ":", ".", "\"", "(", ")", "[", "]", "*", "=",
      "0", "1", "2", "3", "4", "5", "6", "7", "8", "9",
      "a", "b", "c", "d", "e", "f", "g", "h", "i", "j", "k", "l", "m",
      "n", "o", "p", "q", "r", "s", "t", "u", "v", "w", "x", "y", "z">>

CollationRanks ==
    [c \in {CollationOrder[i] : i \in 1..Len(CollationOrder)} |->
        CHOOSE i \in 1..Len(CollationOrder) : CollationOrder[i] = c]

CollationRank(c) == CollationRanks[c]

\* The comparison of a and b from position i on, the characters before it
\* being the same.
RECURSIVE CompareFrom(_, _, _)
CompareFrom(a, b, i) ==
    IF i > Len(a) /\ i > Len(b) THEN 0
    ELSE IF i > Len(a) THEN -1
    ELSE IF i > Len(b) THEN 1
    ELSE IF CollationRank(a[i]) < CollationRank(b[i]) THEN -1
    ELSE IF CollationRank(a[i]) > CollationRank(b[i]) THEN 1
    ELSE CompareFrom(a, b, i + 1)

localeCompare(a, b) == CompareFrom(a, b, 1)

(***************************************************************************)
(* Host normalisation, PID and address parsing.                            *)
(***************************************************************************)
stripIpv6Brackets(host) ==
    IF host = Undefined THEN host
    ELSE IF StartsWith(host, <<"[">>) /\ EndsWith(host, <<"]">>)
         THEN SubSeq(host, 2, Len(host) - 1)
         ELSE host

normalizeHost(host) ==
    LET normalizedHost == stripIpv6Brackets(host) IN
    IF normalizedHost = s_localhost THEN s_127_0_0_1
    ELSE IF normalizedHost = s_mapped THEN s_127_0_0_1
    ELSE IF normalizedHost = s_any6 THEN s_star
    ELSE normalizedHost

\* /pid=(?<pid>\d+)/ : the leftmost "pid=" that a digit follows.
LinuxMatchStarts(pid) ==
    {i \in 1..Len(pid) :
        /\ i + 4 <= Len(pid)
        /\ SubSeq(pid, i, i + 3) = <<"p", "i", "d", "=">>
        /\ IsDigit(pid[i + 4])}

\* The end of the maximal run of letters of s that starts at position i.
RECURSIVE LetterRunEnd(_, _)
LetterRunEnd(s, i) ==
    IF i < Len(s) /\ IsLetter(s[i + 1]) THEN LetterRunEnd(s, i + 1) ELSE i

\* /(?:^|",|",pid=|[A-Za-z]+:)(?<pid>\d+)/ tried at position i: the position
\* of the first digit of the captured group, or 0 when it does not match here.
MacMatchAt(pid, i) ==
    LET q == <<"\"", ",">>
        qp == <<"\"", ",", "p", "i", "d", "=">>
        n == Len(pid)
    IN  IF i = 1 /\ n >= 1 /\ IsDigit(pid[1]) THEN 1
        ELSE IF i + 2 <= n /\ SubSeq(pid, i, i + 1) = q /\ IsDigit(pid[i + 2])
             THEN i + 2
        ELSE IF i + 6 <= n /\ SubSeq(pid, i, i + 5) = qp /\ IsDigit(pid[i + 6])
             THEN i + 6
        ELSE IF i <= n /\ IsLetter(pid[i])
             THEN LET e == LetterRunEnd(pid, i) IN
                  IF e + 2 <= n /\ pid[e + 1] = ":" /\ IsDigit(pid[e + 2])
                  THEN e + 2 ELSE 0
        ELSE 0

parsePid(pid) ==
    IF pid = Undefined THEN Absent
    ELSE
      LET linuxStarts == LinuxMatchStarts(pid)
          macStarts == {i \in 1..Len(pid) : MacMatchAt(pid, i) # 0}
      IN  IF linuxStarts # {}
          THEN LET i == CHOOSE k \in linuxStarts : \A m \in linuxStarts : k <= m
               IN  ParseInt(SubSeq(pid, i + 4, DigitRunEnd(pid, i + 4)))
          ELSE IF macStarts # {}
          THEN LET i == CHOOSE k \in macStarts : \A m \in macStarts : k <= m
                   d == MacMatchAt(pid, i)
               IN  ParseInt(SubSeq(pid, d, DigitRunEnd(pid, d)))
          ELSE IF pid # <<>> /\ AllDigitsFrom(pid, 1)
          THEN ParseInt(pid)
          ELSE Absent

\* /^(?<host>.+?)[.:](?<port>\d+)$/ : the positions of the separator for
\* which the expression matches; the lazy host group takes the smallest.
AddressSeparators(address) ==
    {k \in 2..Len(address) :
        /\ address[k] \in {".", ":"}
        /\ AllDigitsFrom(address, k + 1)}

\* parseAddress that cuts at the first separator a digit follows
parseAddress_FirstSeparator(address) ==
    LET text == IF address = Undefined THEN s_undefined ELSE address
        seps == {k \in 2..(Len(text) - 1) : text[k] \in {".", ":"} /\ IsDigit(text[k + 1])}
    IN  IF seps = {}
        THEN [host |-> normalizeHost(address), port |-> Absent]
        ELSE LET k == CHOOSE x \in seps : \A y \in seps : x <= y
             IN  [host |-> normalizeHost(SubSeq(text, 1, k - 1)),
                  port |-> ParseInt(SubSeq(text, k + 1, DigitRunEnd(text, k + 1)))]

parseAddress(address) ==
    LET text == IF address = Undefined THEN s_undefined ELSE address
        seps == AddressSeparators(text)
    IN  IF seps = {}
        THEN [host |-> normalizeHost(address), port |-> Absent]
        ELSE LET k == CHOOSE x \in seps : \A y \in seps : x <= y
             IN  [host |-> normalizeHost(SubSeq(text, 1, k - 1)),
                  port |-> ParseInt(From(text, k + 1))]

\* isLocalhostAddress that takes the wildcard for a local address
isLocalhostAddress_Wildcard(host) ==
    host = s_127_0_0_1 \/ host = s_loop6 \/ host = s_star \/ host = s_any6

isLocalhostAddress(host) == host = s_127_0_0_1 \/ host = s_loop6

(***************************************************************************)
(* JavaScript values given as arguments.  A port or pid argument is either *)
(* an integer or some other value (a string, a fraction); a host argument  *)
(* is undefined, a string, or some other value (a number).                 *)
(***************************************************************************)
JsInt(n) == [isInteger |-> TRUE, value |-> n, text |-> ToDigits(n)]
JsNotInt == [isInteger |-> FALSE, value |-> 0, text |-> <<"f", "o", "o">>]
JsNumberHost == <<"number-value">>
IsString(v) == \A i \in 1..Len(v) : Len(v[i]) = 1

TypeError(message) == [name |-> "TypeError", message |-> message]
Error(message) == [name |-> "Error", message |-> message]
NoError == [name |-> "none", message |-> <<>>]

(***************************************************************************)
(* Host filter.                                                            *)
(***************************************************************************)
\* createHostFilter for which 0.0.0.0 is a host like any other
createHostFilter_ZeroIsSpecific(host) ==
    LET normalizedHost == IF host = Undefined THEN Undefined ELSE normalizeHost(host) IN
    IF normalizedHost = s_star \/ normalizedHost = s_any6
    THEN [type |-> "all", host |-> Undefined]
    ELSE IF normalizedHost = Undefined
    THEN [type |-> "localhost", host |-> Undefined]
    ELSE [type |-> "specific", host |-> normalizedHost]

createHostFilter(host) ==
    LET normalizedHost == IF host = Undefined THEN Undefined ELSE normalizeHost(host) IN
    IF normalizedHost = s_star \/ normalizedHost = s_0_0_0_0 \/ normalizedHost = s_any6
    THEN [type |-> "all", host |-> Undefined]
    ELSE IF normalizedHost = Undefined
    THEN [type |-> "localhost", host |-> Undefined]
    ELSE [type |-> "specific", host |-> normalizedHost]

\* line[column], with the 0-based column of the code
Column(line, column) ==
    IF column + 1 <= Len(line) THEN line[column + 1] ELSE Undefined

\* applyHostFilter whose all-interfaces filter keeps the wildcard rows only
applyHostFilter_WildcardRows(lines, addressColumn, hostFilter) ==
    LET IsLocal(line) == isLocalhostAddress(parseAddress(Column(line, addressColumn)).host)
        IsWild(line) == parseAddress(Column(line, addressColumn)).host = s_star
        IsHost(line) == parseAddress(Column(line, addressColumn)).host = hostFilter.host
    IN  IF hostFilter.type = "all" THEN SelectSeq(lines, IsWild)
        ELSE IF hostFilter.type = "localhost" THEN SelectSeq(lines, IsLocal)
        ELSE SelectSeq(lines, IsHost)

\* The text matches the pattern in which a dot stands for any character.
DotPatternMatches(pattern, text) ==
    /\ Len(pattern) = Len(text)
    /\ \A i \in 1..Len(pattern) : pattern[i] = "." \/ pattern[i] = text[i]

\* applyHostFilter that uses the specific host as a pattern
applyHostFilter_Pattern(lines, addressColumn, hostFilter) ==
    LET IsLocal(line) == isLocalhostAddress(parseAddress(Column(line, addressColumn)).host)
        IsHost(line) ==
            DotPatternMatches(hostFilter.host, parseAddress(Column(line, addressColumn)).host)
    IN  IF hostFilter.type = "all" THEN lines
        ELSE IF hostFilter.type = "localhost" THEN SelectSeq(lines, IsLocal)
        ELSE SelectSeq(lines, IsHost)

applyHostFilter(lines, addressColumn, hostFilter) ==
    LET IsLocal(line) == isLocalhostAddress(parseAddress(Column(line, addressColumn)).host)
        IsHost(line) == parseAddress(Column(line, addressColumn)).host = hostFilter.host
    IN  IF hostFilter.type = "all" THEN lines
        ELSE IF hostFilter.type = "localhost" THEN SelectSeq(lines, IsLocal)
        ELSE SelectSeq(lines, IsHost)

(***************************************************************************)
(* Ordering.  hostPriorityCompare is the comparator given to items.sort;   *)
(* ArraySort is Array.prototype.sort as the runtime performs it on arrays  *)
(* shorter than 64 elements: the initial run is found (and reversed when   *)
(* strictly descending), the rest is inserted by binary insertion.  With a *)
(* consistent comparator this is a stable sort.                            *)
(***************************************************************************)
hostPriorityCompare(addressA, addressB) ==
    IF StartsWith(addressA, s_127_0_0_1) /\ StartsWith(addressB, s_loop6) THEN -1
    ELSE IF StartsWith(addressA, s_loop6) /\ StartsWith(addressB, s_127_0_0_1) THEN 1
    ELSE localeCompare(addressA, addressB)

SortCompare(x, y) == hostPriorityCompare(x.key, y.key)

RECURSIVE RunEnd(_, _, _)
RunEnd(a, descending, idx) ==
    IF idx = Len(a) THEN idx
    ELSE LET order == SortCompare(a[idx + 1], a[idx]) IN
         IF (descending /\ order >= 0) \/ (~descending /\ order < 0)
         THEN idx
         ELSE RunEnd(a, descending, idx + 1)

Reverse(s) == [i \in 1..Len(s) |-> s[Len(s) + 1 - i]]

\* left and right are the 0-based bounds of the runtime's binary search
RECURSIVE BinarySearch(_, _, _, _)
BinarySearch(a, pivot, left, right) ==
    IF left >= right THEN left
    ELSE LET mid == left + ((right - left) \div 2) IN
         IF SortCompare(pivot, a[mid + 1]) < 0
         THEN BinarySearch(a, pivot, left, mid)
         ELSE BinarySearch(a, pivot, mid + 1, right)

RECURSIVE BinaryInsertionSort(_, _)
BinaryInsertionSort(a, start) ==
    IF start >= Len(a) THEN a
    ELSE LET pivot == a[start + 1]
             left == BinarySearch(a, pivot, 0, start)
         IN  BinaryInsertionSort(
                 SubSeq(a, 1, left) \o <<pivot>> \o SubSeq(a, left + 1, start)
                     \o SubSeq(a, start + 2, Len(a)),
                 start + 1)

ArraySort(a) ==
    IF Len(a) < 2 THEN a
    ELSE LET descending == SortCompare(a[2], a[1]) < 0
             runLength == RunEnd(a, descending, 2)
             run == IF descending
                    THEN Reverse(SubSeq(a, 1, runLength)) \o SubSeq(a, runLength + 1, Len(a))
                    ELSE a
         IN  BinaryInsertionSort(run, runLength)

\* getAddress is the callback, given as the function from each item to its address
sortByHostPriority(items, getAddress) ==
    LET keyed == [i \in 1..Len(items) |-> [key |-> getAddress[items[i]], item |-> items[i]]]
        sorted == ArraySort(keyed)
    IN  [i \in 1..Len(items) |-> sorted[i].item]

(***************************************************************************)
(* Messages and validation.  A message is the sequence of its pieces: the  *)
(* fixed parts of the template literal, and the characters of the values   *)
(* put into it.                                                            *)
(***************************************************************************)
\* The grave accent (U+0060) that the messages put around a port or a host.
Backquote == "U+0060"

\* createPortErrorMessage that names the host for the specific filter only
\* when the host is not empty
createPortErrorMessage_EmptyHost(port, hostFilter) ==
    LET base == <<"Could not find ", "a process that uses", " port ", Backquote>>
                    \o ToDigits(port) \o <<Backquote>>
    IN  IF hostFilter.type = "localhost" THEN base \o <<" on localhost">>
        ELSE IF hostFilter.type = "specific" /\ hostFilter.host # <<>>
        THEN base \o <<" on host ", Backquote>> \o hostFilter.host \o <<Backquote>>
        ELSE base

createPortErrorMessage(port, hostFilter) ==
    LET base == <<"Could not find ", "a process that uses", " port ", Backquote>>
                    \o ToDigits(port) \o <<Backquote>>
    IN  IF hostFilter.type = "localhost" THEN base \o <<" on localhost">>
        ELSE IF hostFilter.type = "specific"
        THEN base \o <<" on host ", Backquote>> \o hostFilter.host \o <<Backquote>>
        ELSE base

\* message.replace(pattern, replacement): the first occurrence only
ReplaceFirst(message, pattern, replacement) ==
    LET at == {i \in 1..Len(message) : message[i] = pattern} IN
    IF at = {} THEN message
    ELSE LET i == CHOOSE k \in at : \A m \in at : k <= m
         IN  [message EXCEPT ![i] = replacement]

MinPort == 1
MaxPort == 65535

\* validatePort without its upper bound
validatePort_NoUpperBound(port, context) ==
    IF ~port.isInteger \/ port.value < MinPort
    THEN TypeError(<<"Expected ", context, " between 1 and 65535, got ">> \o port.text)
    ELSE NoError

\* What validatePort throws, or NoError.
validatePort(port, context) ==
    IF ~port.isInteger \/ port.value < MinPort \/ port.value > MaxPort
    THEN TypeError(<<"Expected ", context, " between 1 and 65535, got ">> \o port.text)
    ELSE NoError

validateHost(host) ==
    IF host # Undefined /\ ~IsString(host)
    THEN TypeError(<<"Expected host to be a string, got ", "number">>)
    ELSE NoError

validatePid(pid) ==
    IF ~pid.isInteger
    THEN TypeError(<<"Expected an integer, got ", "string">>)
    ELSE NoError

(***************************************************************************)
(* Selecting the rows of a port.                                           *)
(***************************************************************************)
\* The port test without the separator in front of the digits
PortRegexTest_AnySuffix(port, token) ==
    LET text == IF token = Undefined THEN s_undefined ELSE token
    IN  EndsWith(text, ToDigits(port))

\* new RegExp('[.:]' + port + '$').test(token); an undefined token is tested as
\* the text "undefined"
PortRegexTest(port, token) ==
    LET text == IF token = Undefined THEN s_undefined ELSE token
        digits == ToDigits(port)
    IN  /\ Len(text) > Len(digits)
        /\ EndsWith(text, digits)
        /\ text[Len(text) - Len(digits)] \in {".", ":"}

filterPortLines(port, lines, addressColumn, hostFilter) ==
    LET Matches(line) == PortRegexTest(port, Column(line, addressColumn))
        matchingPorts == SelectSeq(lines, Matches)
    IN  applyHostFilter(matchingPorts, addressColumn, hostFilter)

(***************************************************************************)
(* Enumeration output.  The stdout of a command is the sequence of its     *)
(* lines and a line is the sequence of its whitespace-separated tokens     *)
(* (what line.match(/\S+/g) yields).  Sockets renders a list of sockets    *)
(* the way the platform's tool prints them.                                *)
(***************************************************************************)
t_tcp == <<"t", "c", "p">>
t_udp == <<"u", "d", "p">>
t_TCP == <<"T", "C", "P">>
t_UDP == <<"U", "D", "P">>
t_LISTEN == <<"L", "I", "S", "T", "E", "N">>
t_0 == <<"0">>
t_anyPeerStar == <<"*", ":", "*">>
t_Active == <<"A", "c", "t", "i", "v", "e">>
t_Proto == <<"P", "r", "o", "t", "o">>
t_Local == <<"L", "o", "c", "a", "l">>
t_Address == <<"A", "d", "d", "r", "e", "s", "s">>
t_rxbytes == <<"r", "x", "b", "y", "t", "e", "s">>


\* The address column of a socket bound to host:port; the tool prints * for
\* the port of a socket that is not bound to one (port = Absent).
LocalAddress(os, host, port) ==
    LET isV6 == \E i \in 1..Len(host) : host[i] = ":"
        digits == IF port = Absent THEN s_star ELSE ToDigits(port)
    IN  IF os = "darwin"
        THEN (IF host = s_0_0_0_0 \/ host = s_any6 THEN s_star ELSE host) \o <<".">> \o digits
        ELSE (IF isV6 THEN Bracketed(host) ELSE host) \o <<":">> \o digits

\* One line of the tool's output.  owner = Absent: the tool does not show
\* the owning process; host = Undefined: the line is cut after its first
\* token.
SocketLine(os, rxbytes, socket) ==
    LET address == LocalAddress(os, socket.host, socket.port)
        owner == IF socket.owner = Absent THEN <<"-">> ELSE ToDigits(socket.owner)
        unconn == <<"U", "N", "C", "O", "N", "N">>
        listening == <<"L", "I", "S", "T", "E", "N", "I", "N", "G">>
        usersOpen == <<"u", "s", "e", "r", "s", ":", "(", "(", "\"", "n", "o", "d", "e", "\"",
                       ",", "p", "i", "d", "=">>
        usersClose == <<",", "f", "d", "=", "3", ")", ")">>
        anyPeerColon == <<"0", ".", "0", ".", "0", ".", "0", ":", "*">>
        anyPeerWin == <<"0", ".", "0", ".", "0", ".", "0", ":", "0">>
        anyPeerDot == <<"*", ".", "*">>
        hiwat == <<"1", "3", "1", "0", "7", "2">>
    IN  IF socket.host = Undefined
        THEN <<IF os = "darwin" THEN socket.proto \o <<"4">>
               ELSE IF os = "linux" THEN socket.proto ELSE t_TCP>>
        ELSE IF os = "linux"
        THEN <<socket.proto, IF socket.proto = t_tcp THEN t_LISTEN ELSE unconn,
               t_0, <<"1", "2", "8">>, address, anyPeerColon>>
             \o (IF socket.owner = Absent THEN <<>>
                 ELSE <<usersOpen \o ToDigits(socket.owner) \o usersClose>>)
        ELSE IF os = "darwin"
        THEN <<socket.proto \o <<"4">>, t_0, t_0, address, anyPeerDot>>
             \o (IF socket.proto = t_tcp THEN <<t_LISTEN>> ELSE <<>>)
             \o (IF rxbytes THEN <<t_0, t_0>> ELSE <<>>)
             \o <<hiwat, hiwat, owner, t_0>>
        ELSE IF socket.proto = t_tcp
        THEN <<t_TCP, address, anyPeerWin, listening, owner>>
        ELSE <<t_UDP, address, t_anyPeerStar, owner>>

DarwinHeader(rxbytes) ==
    <<t_Proto, t_Local, t_Address, <<"(", "s", "t", "a", "t", "e", ")">>>>
    \o (IF rxbytes THEN <<t_rxbytes, <<"t", "x", "b", "y", "t", "e", "s">>>> ELSE <<>>)
    \o <<<<"r", "h", "i", "w", "a", "t">>, <<"s", "h", "i", "w", "a", "t">>, <<"p", "i", "d">>>>

\* The lines a command prints before its sockets.
StdoutHeader(os, rxbytes) ==
    IF os = "darwin" THEN <<<<t_Active>>, DarwinHeader(rxbytes)>>
    ELSE IF os = "linux" THEN <<<<<<"N", "e", "t", "i", "d">>, t_Local, t_Address>>>>
    ELSE <<<<t_Active>>, <<>>, <<t_Proto, t_Local, t_Address>>>>

\* The stdout of one enumeration command listing the given sockets.
Stdout(os, rxbytes, sockets) ==
    StdoutHeader(os, rxbytes)
        \o [i \in 1..Len(sockets) |-> SocketLine(os, rxbytes, sockets[i])]

(***************************************************************************)
(* Platform adapters and getList.                                          *)
(***************************************************************************)
Command(exe, args) == [exe |-> exe, args |-> args]

netstat(type) == Command("netstat", <<"-anv", "-p", type>>)

\* The commands the adapter of the platform starts, in order.
PrimaryCommands(os) ==
    IF os = "darwin" THEN <<netstat("tcp"), netstat("udp")>>
    ELSE IF os = "linux" THEN <<Command("ss", <<"-tunlp">>)>>
    ELSE <<Command("netstat", <<"-ano">>)>>

Contains(s, sub) ==
    \E i \in 1..(Len(s) - Len(sub) + 1) : SubSeq(s, i, i + Len(sub) - 1) = sub

DropLastChar(line) ==
    IF line = <<>> THEN line
    ELSE LET last == line[Len(line)] IN
         SubSeq(line, 1, Len(line) - 1)
            \o (IF Len(last) > 1 THEN <<SubSeq(last, 1, Len(last) - 1)>> ELSE <<>>)

\* tcp.slice(headerStart, tcp.indexOf('\n', headerStart)): the second line;
\* when no line break follows it, indexOf gives -1 and slice drops the last
\* character of the text instead.
HeaderLine(tcp) ==
    IF Len(tcp) >= 3 THEN tcp[2]
    ELSE IF Len(tcp) = 2 THEN DropLastChar(tcp[2])
    ELSE IF Len(tcp) = 1 THEN DropLastChar(tcp[1])
    ELSE <<>>

macos(tcp, udp) ==
    LET header == HeaderLine(tcp) IN
    [stdout |-> tcp \o udp,
     addressColumn |-> 3,
     pidColumn |-> IF \E i \in 1..Len(header) : Contains(header[i], t_rxbytes)
                   THEN 10 ELSE 8]

linux(stdout) == [stdout |-> stdout, addressColumn |-> 4, pidColumn |-> 6]

windows(stdout) == [stdout |-> stdout, addressColumn |-> 1, pidColumn |-> 4]

\* platformImplementations[process.platform] ?? windows, applied to the
\* stdout of the commands it ran
implementation(os, outs) ==
    IF os = "darwin" THEN macos(outs[1], outs[2])
    ELSE IF os = "linux" THEN linux(outs[1])
    ELSE windows(outs[1])

LowerCase(c) ==
    IF c = "T" THEN "t" ELSE IF c = "C" THEN "c" ELSE IF c = "P" THEN "p"
    ELSE IF c = "U" THEN "u" ELSE IF c = "D" THEN "d" ELSE c

\* /^\s*(tcp|udp)/ on a line, without the i flag
isProtocol_LowerCaseOnly(line) ==
    /\ line # <<>>
    /\ Len(line[1]) >= 3
    /\ SubSeq(line[1], 1, 3) \in {t_tcp, t_udp}

\* /^\s*(tcp|udp)/i on a line
isProtocol(line) ==
    /\ line # <<>>
    /\ Len(line[1]) >= 3
    /\ [i \in 1..3 |-> LowerCase(line[1][i])] \in {t_tcp, t_udp}

getList(os, outs) ==
    LET adapter == implementation(os, outs) IN
    [lines |-> SelectSeq(adapter.stdout, isProtocol),
     addressColumn |-> adapter.addressColumn,
     pidColumn |-> adapter.pidColumn]

(***************************************************************************)
(* The privilege fallback.                                                 *)
(***************************************************************************)
lsofFallback(port) == Command("lsof", <<"-nP", "-i", ":" \o ToString(port)>>)

IsSpace(c) == c \in {" ", "\n", "\t"}

\* The end of the maximal run of whitespace of s that starts at position i.
RECURSIVE SpaceRunEnd(_, _)
SpaceRunEnd(s, i) ==
    IF i < Len(s) /\ IsSpace(s[i + 1]) THEN SpaceRunEnd(s, i + 1) ELSE i

\* [\[\]:.]PORT\s at position i
FallbackPortAt(out, digits, i) ==
    /\ i + Len(digits) + 1 <= Len(out)
    /\ out[i] \in {"[", "]", ":", "."}
    /\ SubSeq(out, i + 1, i + Len(digits)) = digits
    /\ IsSpace(out[i + Len(digits) + 1])

\* \s+(\d+)\s+ at position j: \s+ takes the whitespace from j up to a
\* digit, (\d+) the whole run of digits, and whitespace must follow.  The
\* value is the position of the first captured digit, or 0.
FallbackPidAt(out, j) ==
    IF j <= Len(out) /\ IsSpace(out[j])
       /\ SpaceRunEnd(out, j) + 1 <= Len(out)
       /\ IsDigit(out[SpaceRunEnd(out, j) + 1])
       /\ DigitRunEnd(out, SpaceRunEnd(out, j) + 1) + 1 <= Len(out)
       /\ IsSpace(out[DigitRunEnd(out, SpaceRunEnd(out, j) + 1) + 1])
    THEN SpaceRunEnd(out, j) + 1
    ELSE 0

\* .*?\s+(\d+)\s+ with the lazy .*? ending before position j or later: it
\* takes one more character at a time, never a line break.
FallbackLazy(out, j) ==
    LET ends == {k \in j..Len(out) :
                    /\ FallbackPidAt(out, k) # 0
                    /\ \A n \in j..(k - 1) : out[n] # "\n"}
    IN  IF ends = {} THEN 0
        ELSE FallbackPidAt(out, CHOOSE k \in ends : \A n \in ends : k <= n)

\* /[\[\]:.]PORT\s.*?\s+(\d+)\s+/ tried at position i, then at the later
\* positions: the position of the first captured digit of the leftmost
\* match, or 0.
FallbackExec(out, digits, i) ==
    LET MatchAt(k) == IF FallbackPortAt(out, digits, k)
                      THEN FallbackLazy(out, k + Len(digits) + 2) ELSE 0
        starts == {k \in i..Len(out) : MatchAt(k) # 0}
    IN  IF starts = {} THEN 0
        ELSE MatchAt(CHOOSE k \in starts : \A n \in starts : k <= n)

\* Number.parseInt of the group captured at position d, if there is a match
FallbackCapture(out, d) ==
    IF d = 0 THEN Absent ELSE ParseInt(SubSeq(out, d, DigitRunEnd(out, d)))

\* The PID the fallback reads from lsof's stdout, or Absent.
FallbackPid(out, port) == FallbackCapture(out, FallbackExec(out, ToDigits(port), 1))

(***************************************************************************)
(* getPort.  The first definition is the function up to its first await:   *)
(* it throws, returns, or starts lsof and waits; the second is the rest of *)
(* it, once lsof has exited.                                               *)
(***************************************************************************)
\* getPort that tries the fallback on every platform
getPort_FallbackOnAnyPlatform(port, list, host, os) ==
    LET invalid == validatePort(port, "a TCP/UDP port")
        hostFilter == createHostFilter(host)
        matchingPorts == filterPortLines(port.value, list.lines, list.addressColumn, hostFilter)
        AddressOf == [line \in {matchingPorts[i] : i \in 1..Len(matchingPorts)} |->
                         Column(line, list.addressColumn)]
        sorted == sortByHostPriority(matchingPorts, AddressOf)
        pid == parsePid(Column(sorted[1], list.pidColumn))
    IN  IF invalid # NoError
        THEN [kind |-> "throw", error |-> invalid, value |-> Absent]
        ELSE IF Len(matchingPorts) = 0
        THEN [kind |-> "throw",
              error |-> Error(createPortErrorMessage(port.value, hostFilter)),
              value |-> Absent]
        ELSE IF pid # Absent
        THEN [kind |-> "return", error |-> NoError, value |-> pid]
        ELSE [kind |-> "await", error |-> NoError, value |-> Absent]

\* getPort that reports a port as not found when the PID of its row is
\* hidden and the platform has no fallback
getPort_HiddenIsNotFound(port, list, host, os) ==
    LET invalid == validatePort(port, "a TCP/UDP port")
        hostFilter == createHostFilter(host)
        matchingPorts == filterPortLines(port.value, list.lines, list.addressColumn, hostFilter)
        AddressOf == [line \in {matchingPorts[i] : i \in 1..Len(matchingPorts)} |->
                         Column(line, list.addressColumn)]
        sorted == sortByHostPriority(matchingPorts, AddressOf)
        pid == parsePid(Column(sorted[1], list.pidColumn))
        notFound == [kind |-> "throw",
                     error |-> Error(createPortErrorMessage(port.value, hostFilter)),
                     value |-> Absent]
    IN  IF invalid # NoError
        THEN [kind |-> "throw", error |-> invalid, value |-> Absent]
        ELSE IF Len(matchingPorts) = 0
        THEN notFound
        ELSE IF pid # Absent
        THEN [kind |-> "return", error |-> NoError, value |-> pid]
        ELSE IF os = "darwin" \/ os = "linux"
        THEN [kind |-> "await", error |-> NoError, value |-> Absent]
        ELSE notFound

getPort(port, list, host, os) ==
    LET invalid == validatePort(port, "a TCP/UDP port")
        hostFilter == createHostFilter(host)
        matchingPorts == filterPortLines(port.value, list.lines, list.addressColumn, hostFilter)
        AddressOf == [line \in {matchingPorts[i] : i \in 1..Len(matchingPorts)} |->
                         Column(line, list.addressColumn)]
        sorted == sortByHostPriority(matchingPorts, AddressOf)
        pid == parsePid(Column(sorted[1], list.pidColumn))
    IN  IF invalid # NoError
        THEN [kind |-> "throw", error |-> invalid, value |-> Absent]
        ELSE IF Len(matchingPorts) = 0
        THEN [kind |-> "throw",
              error |-> Error(createPortErrorMessage(port.value, hostFilter)),
              value |-> Absent]
        ELSE IF pid # Absent
        THEN [kind |-> "return", error |-> NoError, value |-> pid]
        ELSE IF os = "darwin" \/ os = "linux"
        THEN [kind |-> "await", error |-> NoError, value |-> Absent]
        ELSE [kind |-> "return", error |-> NoError, value |-> Absent]

\* exit: [ok, stdout] of the lsof command; a failure is caught and ignored
getPortAfterFallback(port, exit) ==
    IF exit.ok THEN FallbackPid(exit.stdout, port.value) ELSE Absent

(***************************************************************************)
(* Maps and Sets keep insertion order: a Map is a sequence of <<key,       *)
(* value>> pairs with distinct keys, a Set a sequence without repetition.  *)
(***************************************************************************)
MapHas(m, k) == \E i \in 1..Len(m) : m[i][1] = k
MapGet(m, k) == m[CHOOSE i \in 1..Len(m) : m[i][1] = k][2]
MapSet(m, k, v) ==
    IF MapHas(m, k)
    THEN [i \in 1..Len(m) |-> IF m[i][1] = k THEN <<k, v>> ELSE m[i]]
    ELSE Append(m, <<k, v>>)
MapKeys(m) == {m[i][1] : i \in 1..Len(m)}

RECURSIVE MapFromEntries(_)
MapFromEntries(entries) ==
    IF entries = <<>> THEN <<>>
    ELSE LET last == entries[Len(entries)] IN
         MapSet(MapFromEntries(SubSeq(entries, 1, Len(entries) - 1)), last[1], last[2])

SetAdd(set, x) == IF \E i \in 1..Len(set) : set[i] = x THEN set ELSE Append(set, x)
Elements(set) == {set[i] : i \in 1..Len(set)}

(***************************************************************************)
(* allPortsWithPid, pidToPorts and portBindings once the table is there.   *)
(***************************************************************************)
\* The loop of allPortsWithPid that skips a row only for a missing port
RECURSIVE CollectPorts_AnyPid(_, _, _)
CollectPorts_AnyPid(lines, addressColumn, pidColumn) ==
    IF lines = <<>> THEN <<>>
    ELSE LET line == lines[Len(lines)]
             before == CollectPorts_AnyPid(SubSeq(lines, 1, Len(lines) - 1),
                                           addressColumn, pidColumn)
             port == parseAddress(Column(line, addressColumn)).port
             pid == parsePid(Column(line, pidColumn))
         IN  IF port # Absent THEN MapSet(before, port, pid) ELSE before

RECURSIVE CollectPorts(_, _, _)
CollectPorts(lines, addressColumn, pidColumn) ==
    IF lines = <<>> THEN <<>>
    ELSE LET line == lines[Len(lines)]
             before == CollectPorts(SubSeq(lines, 1, Len(lines) - 1), addressColumn, pidColumn)
             port == parseAddress(Column(line, addressColumn)).port
             pid == parsePid(Column(line, pidColumn))
         IN  IF port # Absent /\ pid # Absent THEN MapSet(before, port, pid) ELSE before

allPortsWithPid(list, host) ==
    LET hostFilter == createHostFilter(host)
        filteredLines == applyHostFilter(list.lines, list.addressColumn, hostFilter)
    IN  CollectPorts(filteredLines, list.addressColumn, list.pidColumn)

\* resultMap.get(pid)?.add(port)
AddPort(resultMap, port, pid) ==
    [i \in 1..Len(resultMap) |->
        IF resultMap[i][1].isInteger /\ resultMap[i][1].value = pid
        THEN <<resultMap[i][1], SetAdd(resultMap[i][2], port)>>
        ELSE resultMap[i]]

\* resultMap.get(pid)?.add(port) for every entry of the all-interfaces map
RECURSIVE AddPorts(_, _)
AddPorts(resultMap, entries) ==
    IF entries = <<>> THEN resultMap
    ELSE AddPort(AddPorts(resultMap, SubSeq(entries, 1, Len(entries) - 1)),
                 entries[Len(entries)][1], entries[Len(entries)][2])

\* getPidsToPortsMap that reads the map of the default host filter
getPidsToPortsMap_DefaultFilter(pids, list) ==
    LET resultMap == MapFromEntries([i \in 1..Len(pids) |-> <<pids[i], <<>>>>])
    IN  AddPorts(resultMap, allPortsWithPid(list, Undefined))

getPidsToPortsMap(pids, list) ==
    LET resultMap == MapFromEntries([i \in 1..Len(pids) |-> <<pids[i], <<>>>>])
    IN  AddPorts(resultMap, allPortsWithPid(list, s_star))

\* The loop of portBindings without its seen set: one binding per row
RECURSIVE CollectBindings_EveryRow(_, _, _)
CollectBindings_EveryRow(lines, addressColumn, pidColumn) ==
    IF lines = <<>> THEN <<>>
    ELSE LET line == lines[Len(lines)]
             before == CollectBindings_EveryRow(SubSeq(lines, 1, Len(lines) - 1),
                                                addressColumn, pidColumn)
             host == parseAddress(Column(line, addressColumn)).host
             pid == parsePid(Column(line, pidColumn))
         IN  IF pid = Absent THEN before
             ELSE Append(before, [host |-> host, pid |-> pid])

RECURSIVE CollectBindings(_, _, _)
CollectBindings(lines, addressColumn, pidColumn) ==
    IF lines = <<>> THEN <<>>
    ELSE LET line == lines[Len(lines)]
             before == CollectBindings(SubSeq(lines, 1, Len(lines) - 1), addressColumn, pidColumn)
             host == parseAddress(Column(line, addressColumn)).host
             pid == parsePid(Column(line, pidColumn))
         IN  IF pid = Absent THEN before
             ELSE SetAdd(before, [host |-> host, pid |-> pid])

portBindings(port, list, host) ==
    LET hostFilter == createHostFilter(host)
        matchingPorts == filterPortLines(port.value, list.lines, list.addressColumn, hostFilter)
        bindings == CollectBindings(matchingPorts, list.addressColumn, list.pidColumn)
        HostOf == [binding \in {bindings[i] : i \in 1..Len(bindings)} |-> binding.host]
    IN  IF Len(matchingPorts) = 0
        THEN [kind |-> "throw",
              error |-> Error(ReplaceFirst(createPortErrorMessage(port.value, hostFilter),
                                           "a process that uses", "any processes using")),
              value |-> <<>>]
        ELSE [kind |-> "return", error |-> NoError,
              value |-> sortByHostPriority(bindings, HostOf)]

(***************************************************************************)
(* Inputs: the sockets an enumeration may list, the arguments of the       *)
(* public calls, and what lsof may print.                                  *)
(***************************************************************************)
Socket(proto, host, port, owner) ==
    [proto |-> proto, host |-> host, port |-> port, owner |-> owner]

Sockets ==
    {Socket(t_tcp, s_127_0_0_1, 80, 1),
     Socket(t_udp, s_127_0_0_1, 80, 2),
     Socket(t_udp, s_127_0_0_1, 80, 1),
     Socket(t_tcp, s_loop6, 80, 2),
     Socket(t_tcp, s_0_0_0_0, 80, 2),
     Socket(t_tcp, s_0_0_0_0, 80, Absent),
     Socket(t_udp, s_0_0_0_0, Absent, 1),
     Socket(t_tcp, s_any6, 81, 1),
     Socket(t_tcp, s_127x0x0x1, 80, 1),
     Socket(t_tcp, s_127_0_0_1, 81, Absent),
     Socket(t_tcp, Undefined, Absent, Absent)}

SeqsUpTo(S, n) == UNION {[1..k -> S] : k \in 0..n}

PortValues == {JsInt(0), JsInt(80), JsInt(81), JsInt(70000), JsNotInt}
\* The elements of a list of ports
ListedPortValues == {JsInt(0), JsInt(80), JsInt(81)}
PidValues == {JsInt(1), JsInt(2), JsNotInt}
HostValues ==
    {Undefined, JsNumberHost, s_star, s_0_0_0_0, s_any6, Bracketed(s_any6),
     Bracketed(s_star), s_localhost, s_127_0_0_1, s_loop6, Bracketed(s_loop6),
     s_127x0x0x1, s_empty}

\* lsof's stdout as text: tokens joined by blanks, lines by line breaks
RECURSIVE Join(_, _)
Join(parts, sep) ==
    IF parts = <<>> THEN <<>>
    ELSE IF Len(parts) = 1 THEN parts[1]
    ELSE parts[1] \o <<sep>> \o Join(Tail(parts), sep)

Text(lines) == Join([i \in 1..Len(lines) |-> Join(lines[i], " ")], "\n")

l_IPv4 == <<"I", "P", "v", "4">>

\* COMMAND PID TYPE NODE NAME, one listener (owned by pid 7) on port, and
\* optionally a second process line after it.
LsofListing(port, more) ==
    LET header == <<<<"C", "O", "M", "M", "A", "N", "D">>, <<"P", "I", "D">>, l_IPv4,
                    <<"N", "A", "M", "E">>>>
        listener == <<<<"n", "o", "d", "e">>, <<"7">>, l_IPv4, t_TCP,
                      s_127_0_0_1 \o <<":">> \o ToDigits(port),
                      <<"(", "L", "I", "S", "T", "E", "N", ")">>>>
        other == <<<<"9">>, <<"9">>, l_IPv4, t_TCP, t_anyPeerStar>>
    IN  Text(<<header, listener>> \o (IF more THEN <<other>> ELSE <<>>))

LsofExits(port) ==
    {[ok |-> FALSE, stdout |-> <<>>],
     [ok |-> TRUE, stdout |-> LsofListing(port, FALSE)],
     [ok |-> TRUE, stdout |-> LsofListing(port, TRUE)]}

\* The ports a call may ask lsof about, and what lsof may do for each.
FallbackPorts == {p.value : p \in {q \in PortValues : validatePort(q, "") = NoError}}
LsofExitsOf == [p \in FallbackPorts |-> LsofExits(p)]
AllLsofExits == UNION {LsofExitsOf[p] : p \in FallbackPorts}

(***************************************************************************)
(* The state machine: one public call from its start to its settlement.    *)
(***************************************************************************)
Pending == [state |-> "pending", value |-> <<>>, error |-> NoError]
Fulfilled(value) == [state |-> "fulfilled", value |-> value, error |-> NoError]
Rejected(error) == [state |-> "rejected", value |-> <<>>, error |-> error]

CommandFailed == [name |-> "ExecaError", message |-> <<"Command failed">>]

NoCall == [op |-> "none", shape |-> "none", port |-> JsNotInt, host |-> Undefined, list |-> <<>>]
NoTable == [lines |-> <<>>, addressColumn |-> 0, pidColumn |-> 0]
NoFilter == [type |-> "none", host |-> Undefined]

Init ==
    /\ platform \in {[os |-> "darwin", rxbytes |-> TRUE], [os |-> "darwin", rxbytes |-> FALSE],
                     [os |-> "linux", rxbytes |-> FALSE], [os |-> "win32", rxbytes |-> FALSE]}
    /\ pc = "idle"
    /\ call = NoCall
    /\ running = {}
    /\ started = <<>>
    /\ outputs = <<>>
    /\ table = NoTable
    /\ slots = <<>>
    /\ filter = NoFilter
    /\ result = Pending

\* The first error of a sequence of validation outcomes, or NoError.
FirstError(checks) ==
    LET bad == {i \in 1..Len(checks) : checks[i] # NoError} IN
    IF bad = {} THEN NoError
    ELSE checks[CHOOSE i \in bad : \A j \in bad : i <= j]

\* A call that runs the enumeration again for a list of several elements
Begin_PerElement(theCall, invalid) ==
    /\ pc = "idle"
    /\ call' = theCall
    /\ IF invalid # NoError
       THEN /\ pc' = "done"
            /\ result' = Rejected(invalid)
            /\ UNCHANGED <<running, started>>
       ELSE /\ pc' = "list"
            /\ result' = Pending
            /\ started' = started \o PrimaryCommands(platform.os)
                              \o (IF Len(theCall.list) > 1
                                  THEN PrimaryCommands(platform.os) ELSE <<>>)
            /\ running' = (Len(started) + 1)..Len(started')
    /\ UNCHANGED <<platform, outputs, table, slots, filter>>

\* A public call begins: it throws the validation error, or awaits getList,
\* which starts the platform's enumeration command(s).
Begin(theCall, invalid) ==
    /\ pc = "idle"
    /\ call' = theCall
    /\ IF invalid # NoError
       THEN /\ pc' = "done"
            /\ result' = Rejected(invalid)
            /\ UNCHANGED <<running, started>>
       ELSE /\ pc' = "list"
            /\ result' = Pending
            /\ started' = started \o PrimaryCommands(platform.os)
            /\ running' = (Len(started) + 1)..(Len(started) + Len(PrimaryCommands(platform.os)))
    /\ UNCHANGED <<platform, outputs, table, slots, filter>>

portToPid(shape, port, host, ports) ==
    /\ \/ shape = "options" /\ ports = <<>>
       \/ shape = "array" /\ port = JsNotInt /\ host = Undefined
       \/ shape = "single" /\ ports = <<>> /\ host = Undefined
    /\ Begin([op |-> "portToPid", shape |-> shape, port |-> port, host |-> host, list |-> ports],
             IF shape = "options"
             THEN FirstError(<<validatePort(port, "port to be an integer"), validateHost(host)>>)
             ELSE IF shape = "array"
             THEN FirstError([i \in 1..Len(ports) |-> validatePort(ports[i], "port to be an integer")])
             ELSE validatePort(port, "a TCP/UDP port"))

pidToPorts(shape, pid, pids) ==
    /\ \/ shape = "array" /\ pid = JsNotInt
       \/ shape = "single" /\ pids = <<>>
    /\ Begin([op |-> "pidToPorts", shape |-> shape, port |-> pid, host |-> Undefined, list |-> pids],
             IF shape = "array" THEN NoError ELSE validatePid(pid))

allPortsWithPidCall(host) ==
    Begin([op |-> "allPortsWithPid", shape |-> "options", port |-> JsNotInt, host |-> host, list |-> <<>>],
          validateHost(host))

portBindingsCall(port, host) ==
    Begin([op |-> "portBindings", shape |-> "options", port |-> port, host |-> host, list |-> <<>>],
          FirstError(<<validatePort(port, "a TCP/UDP port"), validateHost(host)>>))

\* One promise of portToPid's list: what getPort gave for one port so far.
Slot(port, first, command) ==
    [port |-> port,
     state |-> IF first.kind = "throw" THEN "rejected"
               ELSE IF first.kind = "return" THEN "fulfilled" ELSE "waiting",
     value |-> first.value,
     error |-> first.error,
     command |-> IF first.kind = "await" THEN command ELSE 0]

\* Promise.all that waits for every slot before it rejects
Settle_AfterAll(theCall, theSlots) ==
    LET bad == {i \in 1..Len(theSlots) : theSlots[i].state = "rejected"} IN
    IF \E i \in 1..Len(theSlots) : theSlots[i].state = "waiting"
    THEN Pending
    ELSE IF bad # {}
    THEN Rejected(theSlots[CHOOSE i \in bad : \A j \in bad : i <= j].error)
    ELSE IF theCall.shape = "array"
    THEN Fulfilled(MapFromEntries(
            [i \in 1..Len(theSlots) |-> <<theSlots[i].port.value, theSlots[i].value>>]))
    ELSE Fulfilled(theSlots[1].value)

\* Promise.all over the slots (or the single getPort promise): rejected with
\* the first rejection, fulfilled once every slot is.
Settle(theCall, theSlots) ==
    LET bad == {i \in 1..Len(theSlots) : theSlots[i].state = "rejected"} IN
    IF bad # {}
    THEN Rejected(theSlots[CHOOSE i \in bad : \A j \in bad : i <= j].error)
    ELSE IF \E i \in 1..Len(theSlots) : theSlots[i].state = "waiting"
    THEN Pending
    ELSE IF theCall.shape = "array"
    THEN Fulfilled(MapFromEntries(
            [i \in 1..Len(theSlots) |-> <<theSlots[i].port.value, theSlots[i].value>>]))
    ELSE Fulfilled(theSlots[1].value)

\* The ports portToPid resolves, in order.
RequestedPorts(theCall) ==
    IF theCall.shape = "array" THEN theCall.list ELSE <<theCall.port>>

\* The rest of the public call once getList has returned list.
Continue(list) ==
    /\ table' = list
    /\ filter' = createHostFilter(IF call.op = "pidToPorts" THEN s_star ELSE call.host)
    /\ IF call.op = "portToPid"
       THEN LET ports == RequestedPorts(call)
                first == [i \in 1..Len(ports) |-> getPort(ports[i], list, call.host, platform.os)]
                waiting(i) == Cardinality({j \in 1..i : first[j].kind = "await"})
                newSlots == [i \in 1..Len(ports) |->
                               Slot(ports[i], first[i], Len(started) + waiting(i))]
                lsofs == SelectSeq([i \in 1..Len(ports) |->
                                       IF first[i].kind = "await"
                                       THEN lsofFallback(ports[i].value)
                                       ELSE Command("none", <<>>)],
                                   LAMBDA c : c.exe = "lsof")
            IN  /\ slots' = newSlots
                /\ started' = started \o lsofs
                /\ running' = (running \ DOMAIN outputs') \cup
                                 ((Len(started) + 1)..(Len(started) + Len(lsofs)))
                /\ result' = Settle(call, newSlots)
                /\ pc' = IF result'.state = "pending" THEN "fallback" ELSE "done"
       ELSE /\ result' =
                IF call.op = "pidToPorts"
                THEN LET map == getPidsToPortsMap(RequestedPorts(call), list) IN
                     IF call.shape = "array" THEN Fulfilled(map)
                     ELSE Fulfilled(MapGet(map, call.port))
                ELSE IF call.op = "allPortsWithPid"
                THEN Fulfilled(allPortsWithPid(list, call.host))
                ELSE LET bindings == portBindings(call.port, list, call.host) IN
                     IF bindings.kind = "throw" THEN Rejected(bindings.error)
                     ELSE Fulfilled(bindings.value)
            /\ pc' = "done"
            /\ running' = running \ DOMAIN outputs'
            /\ UNCHANGED <<slots, started>>

\* Rows already printed by the primary commands that have exited.
RECURSIVE RowsOf(_)
RowsOf(done) ==
    IF done = {} THEN 0
    ELSE LET k == CHOOSE x \in done : TRUE IN
         Len(outputs[k]) - Len(StdoutHeader(platform.os, platform.rxbytes)) + RowsOf(done \ {k})

RowsSoFar == RowsOf(DOMAIN outputs)

\* An enumeration command exits, with its stdout or with a failure.
PrimaryExit(i, ok, sockets) ==
    /\ pc = "list"
    /\ i \in running
    /\ started[i].exe # "lsof"
    /\ IF ok
       THEN /\ platform.os = "darwin" =>
                  \A k \in 1..Len(sockets) : sockets[k].proto = (IF i = 1 THEN t_tcp ELSE t_udp)
            /\ Len(sockets) + RowsSoFar <= MaxRows
            /\ outputs' = (i :> Stdout(platform.os, platform.rxbytes, sockets)) @@ outputs
            /\ IF DOMAIN outputs' = 1..Len(PrimaryCommands(platform.os))
               THEN Continue(getList(platform.os, [k \in DOMAIN outputs' |-> outputs'[k]]))
               ELSE /\ running' = running \ {i}
                    /\ UNCHANGED <<pc, started, table, slots, filter, result>>
       ELSE /\ sockets = <<>>
            /\ running' = running \ {i}
            /\ pc' = "done"
            /\ result' = Rejected(CommandFailed)
            /\ UNCHANGED <<outputs, started, table, slots, filter>>
    /\ UNCHANGED <<platform, call>>

\* An enumeration command exits after the call has already been rejected.
LateExit(i) ==
    /\ pc = "done"
    /\ i \in running
    /\ started[i].exe # "lsof"
    /\ running' = running \ {i}
    /\ UNCHANGED <<platform, pc, call, started, outputs, table, slots, filter, result>>

\* lsof exits, its failure not being caught: the getPort that awaited it
\* throws the failure.
FallbackExit_FailureThrown(i, exit) ==
    /\ pc \in {"fallback", "done"}
    /\ i \in running
    /\ started[i].exe = "lsof"
    /\ LET j == CHOOSE x \in 1..Len(slots) : slots[x].command = i
           newSlots == IF exit.ok
                       THEN [slots EXCEPT ![j].state = "fulfilled",
                                          ![j].value = getPortAfterFallback(slots[j].port, exit)]
                       ELSE [slots EXCEPT ![j].state = "rejected",
                                          ![j].error = [name |-> "ExecaError",
                                                        message |-> <<"Command failed">>]]
       IN  /\ exit \in LsofExitsOf[slots[j].port.value]
           /\ slots' = newSlots
           /\ result' = IF pc = "done" THEN result ELSE Settle(call, newSlots)
           /\ pc' = IF result'.state = "pending" THEN "fallback" ELSE "done"
    /\ running' = running \ {i}
    /\ UNCHANGED <<platform, call, started, outputs, table, filter>>

\* lsof exits: the getPort that awaited it continues to its end.
FallbackExit(i, exit) ==
    /\ pc \in {"fallback", "done"}
    /\ i \in running
    /\ started[i].exe = "lsof"
    /\ LET j == CHOOSE x \in 1..Len(slots) : slots[x].command = i
           newSlots == [slots EXCEPT ![j].state = "fulfilled",
                                     ![j].value = getPortAfterFallback(slots[j].port, exit)]
       IN  /\ exit \in LsofExitsOf[slots[j].port.value]
           /\ slots' = newSlots
           /\ result' = IF pc = "done" THEN result ELSE Settle(call, newSlots)
           /\ pc' = IF result'.state = "pending" THEN "fallback" ELSE "done"
    /\ running' = running \ {i}
    /\ UNCHANGED <<platform, call, started, outputs, table, filter>>


Next ==
    \/ /\ pc = "idle"
       /\ \E shape \in {"single", "options", "array"}, port \in PortValues, host \in HostValues,
             ports \in SeqsUpTo(ListedPortValues, MaxPorts) : portToPid(shape, port, host, ports)
    \/ /\ pc = "idle"
       /\ \E shape \in {"single", "array"}, pid \in PidValues,
             pids \in SeqsUpTo(PidValues, MaxPorts) : pidToPorts(shape, pid, pids)
    \/ /\ pc = "idle"
       /\ \E host \in HostValues : allPortsWithPidCall(host)
    \/ /\ pc = "idle"
       /\ \E port \in PortValues, host \in HostValues : portBindingsCall(port, host)
    \/ /\ pc = "list"
       /\ \E i \in running, ok \in BOOLEAN, sockets \in SeqsUpTo(Sockets, MaxRows - RowsSoFar) :
             PrimaryExit(i, ok, sockets)
    \/ \E i \in running : LateExit(i)
    \/ /\ pc \in {"fallback", "done"}
       /\ \E i \in running, exit \in AllLsofExits : FallbackExit(i, exit)

Spec == Init /\ [][Next]_vars

(***************************************************************************)
(* Host normalisation on its own: normalizeHost applied to a host text,    *)
(* and applied again to what it returned.  Here call.host is the text      *)
(* given, slots the values normalizeHost returned so far, and pc counts    *)
(* the applications; the other variables keep their initial values.        *)
(***************************************************************************)
HostBases ==
    {s_localhost, s_127_0_0_1, s_loop6, s_mapped, s_any6, s_star, s_0_0_0_0,
     s_127x0x0x1, s_empty}

\* The host h inside n pairs of brackets.
RECURSIVE InBrackets(_, _)
InBrackets(h, n) == IF n = 0 THEN h ELSE Bracketed(InBrackets(h, n - 1))

HostTexts == {InBrackets(h, n) : h \in HostBases, n \in 0..MaxBrackets}

HostInit ==
    /\ platform = [os |-> "linux", rxbytes |-> FALSE]
    /\ pc = "host"
    /\ call \in {[NoCall EXCEPT !.host = h] : h \in HostTexts}
    /\ running = {}
    /\ started = <<>>
    /\ outputs = <<>>
    /\ table = NoTable
    /\ slots = <<>>
    /\ filter = NoFilter
    /\ result = Pending

\* normalizeHost(host)
NormalizeGiven ==
    /\ pc = "host"
    /\ slots' = <<normalizeHost(call.host)>>
    /\ pc' = "normalized"
    /\ UNCHANGED <<platform, call, running, started, outputs, table, filter, result>>

\* normalizeHost of the host normalizeHost returned
NormalizeAgain ==
    /\ pc = "normalized"
    /\ slots' = Append(slots, normalizeHost(slots[Len(slots)]))
    /\ pc' = "normalized twice"
    /\ UNCHANGED <<platform, call, running, started, outputs, table, filter, result>>

HostNext == NormalizeGiven \/ NormalizeAgain

HostSpec == HostInit /\ [][HostNext]_vars

(***************************************************************************)
(* Address parsing on its own: parseAddress applied to an address token.   *)
(* Here call.host is the token, slots holds what parseAddress returned,    *)
(* and the other variables keep their initial values.                      *)
(***************************************************************************)
\* Hosts, bare and in brackets; alone, before a separator, and before a
\* separator and a port, the * of an unbound socket, or nothing.
AddressTexts ==
    LET hosts == {InBrackets(h, n) : h \in HostBases, n \in 0..1}
        tails == {<<"8", "0">>, s_star, s_empty}
    IN  hosts \cup {h \o <<sep>> \o tail : h \in hosts, sep \in {".", ":"}, tail \in tails}

AddressInit ==
    /\ platform = [os |-> "linux", rxbytes |-> FALSE]
    /\ pc = "address"
    /\ call \in {[NoCall EXCEPT !.host = token] : token \in AddressTexts}
    /\ running = {}
    /\ started = <<>>
    /\ outputs = <<>>
    /\ table = NoTable
    /\ slots = <<>>
    /\ filter = NoFilter
    /\ result = Pending

\* parseAddress(token)
ParseGiven ==
    /\ pc = "address"
    /\ slots' = <<parseAddress(call.host)>>
    /\ pc' = "parsed"
    /\ UNCHANGED <<platform, call, running, started, outputs, table, filter, result>>

AddressNext == ParseGiven

AddressSpec == AddressInit /\ [][AddressNext]_vars

(***************************************************************************)
(* Two public calls at once.  Each call is an async function of its own:   *)
(* everything it builds (its commands, their output, its table, its         *)
(* promises) is local to it, and the module has no binding that is          *)
(* assigned after load.  The variables pc ... result hold the call whose    *)
(* continuation the event loop runs; the other call, suspended at an await  *)
(* (or not begun, or settled), is kept in platform.parked.  Switch is the   *)
(* event loop turning from one call to the other.                           *)
(***************************************************************************)
\* The locals of the call that is running.
Current ==
    [pc |-> pc, call |-> call, running |-> running, started |-> started,
     outputs |-> outputs, table |-> table, slots |-> slots, filter |-> filter,
     result |-> result]

\* The locals of a call that has not begun.
NotStarted ==
    [pc |-> "idle", call |-> NoCall, running |-> {}, started |-> <<>>,
     outputs |-> <<>>, table |-> NoTable, slots |-> <<>>, filter |-> NoFilter,
     result |-> Pending]

\* The sockets the enumerations of the two calls may list.
PairSockets ==
    {Socket(t_tcp, s_127_0_0_1, 80, Absent), Socket(t_tcp, s_127_0_0_1, 81, 1)}

\* A turn of the event loop in which the table is a binding of the module
\* that the two calls share
Switch_SharedTable ==
    /\ platform' = [platform EXCEPT !.parked = Current]
    /\ pc' = platform.parked.pc
    /\ call' = platform.parked.call
    /\ running' = platform.parked.running
    /\ started' = platform.parked.started
    /\ outputs' = platform.parked.outputs
    /\ table' = table
    /\ slots' = platform.parked.slots
    /\ filter' = platform.parked.filter
    /\ result' = platform.parked.result

\* The event loop turns to the other call.
Switch ==
    /\ platform' = [platform EXCEPT !.parked = Current]
    /\ pc' = platform.parked.pc
    /\ call' = platform.parked.call
    /\ running' = platform.parked.running
    /\ started' = platform.parked.started
    /\ outputs' = platform.parked.outputs
    /\ table' = platform.parked.table
    /\ slots' = platform.parked.slots
    /\ filter' = platform.parked.filter
    /\ result' = platform.parked.result

PairInit ==
    /\ platform = [os |-> "linux", rxbytes |-> FALSE, parked |-> NotStarted]
    /\ pc = "idle"
    /\ call = NoCall
    /\ running = {}
    /\ started = <<>>
    /\ outputs = <<>>
    /\ table = NoTable
    /\ slots = <<>>
    /\ filter = NoFilter
    /\ result = Pending

PairNext ==
    \/ /\ pc = "idle"
       /\ \E ports \in SeqsUpTo({JsInt(80), JsInt(81)}, MaxPorts) :
             portToPid("array", JsNotInt, Undefined, ports)
    \/ /\ pc = "idle"
       /\ allPortsWithPidCall(Undefined)
    \/ /\ pc = "list"
       /\ \E i \in running, ok \in BOOLEAN, sockets \in SeqsUpTo(PairSockets, MaxRows - RowsSoFar) :
             PrimaryExit(i, ok, sockets)
    \/ /\ pc \in {"fallback", "done"}
       /\ \E i \in running, exit \in AllLsofExits : FallbackExit(i, exit)
    \/ Switch

PairSpec == PairInit /\ [][PairNext]_vars

(***************************************************************************)
(* What the claims speak of, read from the state.                          *)
(***************************************************************************)
\* getList has returned: the call holds its table.
TableReady == table # NoTable

\* The parsed address and PID of a row of the table.
AddressOfRow(line) == parseAddress(Column(line, table.addressColumn))
PidOfRow(line) == parsePid(Column(line, table.pidColumn))
Rows == {table.lines[i] : i \in 1..Len(table.lines)}

\* The rows for port p.
RowsOfPort(p) == {line \in Rows : AddressOfRow(line).port = p}

IsLocalHost(h) == h = s_127_0_0_1 \/ h = s_loop6

\* The argument is no integer in [1, 65535].
BadPort(port) == ~port.isInteger \/ port.value < 1 \/ port.value > 65535
\* The host is given and is no string.
BadHost(host) == host = JsNumberHost

\* The arguments of the call are invalid, in the cases the operations are
\* documented to reject.
InvalidArguments ==
    \/ /\ call.op = "portToPid"
       /\ call.shape \in {"single", "options"}
       /\ BadPort(call.port) \/ BadHost(call.host)
    \/ /\ call.op = "portToPid"
       /\ call.shape = "array"
       /\ \E i \in 1..Len(call.list) : BadPort(call.list[i])
    \/ /\ call.op = "portBindings"
       /\ BadPort(call.port) \/ BadHost(call.host)
    \/ /\ call.op = "allPortsWithPid"
       /\ BadHost(call.host)
    \/ /\ call.op = "pidToPorts"
       /\ call.shape = "single"
       /\ ~call.port.isInteger

\* C1: a call with an invalid argument is rejected with a validation error
\* (a TypeError) and no enumeration or fallback command has been started,
\* wherever the invalid element stands in a list of ports.
C1_ValidationBeforeAnyCommand ==
    InvalidArguments =>
        /\ pc = "done"
        /\ result.state = "rejected"
        /\ result.error.name = "TypeError"
        /\ started = <<>>
        /\ running = {}
        /\ table = NoTable

\* C1 witness: portToPid([80, 0]), invalid at the second position, rejected
\* with nothing started.
C1_Witness ==
    /\ call.op = "portToPid"
    /\ call.shape = "array"
    /\ call.list = <<JsInt(80), JsInt(0)>>
    /\ result.state = "rejected"
    /\ started = <<>>

\* The rows for port p whose normalized host is 127.0.0.1 or ::1.
LocalRowsOfPort(p) == {line \in RowsOfPort(p) : IsLocalHost(AddressOfRow(line).host)}

\* The call has ended with a not-found error.
NotFound == pc = "done" /\ result.state = "rejected" /\ result.error.name = "Error"

\* The valid ports a portToPid or portBindings call asks for.
AskedPorts ==
    IF call.op = "portToPid" /\ call.shape = "array"
    THEN {call.list[i].value : i \in 1..Len(call.list)}
    ELSE {call.port.value}

\* C2: with no host given, portToPid, allPortsWithPid and portBindings use
\* the localhost filter: a requested port without a row on 127.0.0.1 or ::1
\* is reported as not found, a PID read from the table is the PID of such a
\* row, and every key of allPortsWithPid() has such a row.
C2_DefaultIsLocalhostOnly ==
    (TableReady /\ call.host = Undefined
        /\ call.op \in {"portToPid", "allPortsWithPid", "portBindings"}) =>
        /\ filter = [type |-> "localhost", host |-> Undefined]
        /\ (call.op \in {"portToPid", "portBindings"}
              /\ \E p \in AskedPorts : LocalRowsOfPort(p) = {}) => NotFound
        /\ (call.op = "portBindings" /\ result.state = "fulfilled") =>
              \A i \in 1..Len(result.value) :
                 \E line \in LocalRowsOfPort(call.port.value) :
                    /\ AddressOfRow(line).host = result.value[i].host
                    /\ PidOfRow(line) = result.value[i].pid
        /\ (call.op = "allPortsWithPid" /\ result.state = "fulfilled") =>
              \A p \in MapKeys(result.value) :
                 \E line \in LocalRowsOfPort(p) : PidOfRow(line) = MapGet(result.value, p)

\* C2 witness: port 81 has a row, bound to the wildcard only, and
\* portToPid(81) is rejected as not found.
C2_Witness ==
    /\ TableReady
    /\ call.op = "portToPid"
    /\ call.shape = "single"
    /\ call.port = JsInt(81)
    /\ RowsOfPort(81) # {}
    /\ \A line \in RowsOfPort(81) : PidOfRow(line) # Absent
    /\ NotFound

\* The hosts that ask for every interface, and the normalized form of the
\* other host strings a call may give.
WildcardHosts == {s_star, s_0_0_0_0, s_any6, Bracketed(s_star), Bracketed(s_0_0_0_0),
                  Bracketed(s_any6)}
NormalizedForm(h) ==
    IF h = s_localhost THEN s_127_0_0_1
    ELSE IF h = Bracketed(s_loop6) THEN s_loop6
    ELSE h

\* The rows for port p that the filter asked for by host h lets through.
SurvivingRows(p, h) ==
    IF h = Undefined THEN LocalRowsOfPort(p)
    ELSE IF h \in WildcardHosts THEN RowsOfPort(p)
    ELSE {line \in RowsOfPort(p) : AddressOfRow(line).host = NormalizedForm(h)}

\* The not-found message for port p under the filter asked for by host h.
NotFoundMessage(what, p, h) ==
    <<"Could not find ", what, " port ", Backquote>> \o ToDigits(p) \o <<Backquote>>
        \o (IF h = Undefined THEN <<" on localhost">>
            ELSE IF h \in WildcardHosts THEN <<>>
            ELSE <<" on host ", Backquote>> \o NormalizedForm(h) \o <<Backquote>>)

\* C3: when no row for a requested port survives the host filter, portToPid
\* is rejected with "Could not find a process that uses port P" followed by
\* " on localhost" (default filter), " on host X" (specific host X, the
\* normalized requested host) or nothing (all interfaces); portBindings is
\* rejected with the same message reading "any processes using".
C3_NotFoundMessage ==
    (TableReady /\ call.op \in {"portToPid", "portBindings"}
        /\ \E p \in AskedPorts : SurvivingRows(p, call.host) = {}) =>
        /\ NotFound
        /\ \E p \in AskedPorts :
              /\ SurvivingRows(p, call.host) = {}
              /\ result.error.message =
                    NotFoundMessage(IF call.op = "portToPid" THEN "a process that uses"
                                    ELSE "any processes using", p, call.host)

\* C3 witness: portBindings(80, {host: ''}) on a table with a row for port
\* 80 is rejected, the message ending with an empty host between the quotes.
C3_Witness ==
    /\ TableReady
    /\ call.op = "portBindings"
    /\ call.port = JsInt(80)
    /\ call.host = s_empty
    /\ RowsOfPort(80) # {}
    /\ NotFound
    /\ result.error.message =
          <<"Could not find ", "any processes using", " port ", Backquote, "8", "0",
            Backquote, " on host ", Backquote, Backquote>>

\* The host the filter of the call is made from: pidToPorts asks for every
\* interface, the other operations pass the host of the call.
FilterHost == IF call.op = "pidToPorts" THEN s_star ELSE call.host

SpecificCall ==
    /\ TableReady
    /\ call.op \in {"portToPid", "portBindings", "allPortsWithPid"}
    /\ call.host # Undefined
    /\ call.host \notin WildcardHosts

\* The row's normalized host is, as a string, the normalized host asked for.
HostEquals(line) == AddressOfRow(line).host = NormalizedForm(call.host)

\* C5: a specific-host filter keeps exactly the rows whose normalized host
\* is string-equal to the host asked for: the call finds a port if and only
\* if such a row exists for it, and reports nothing of any other row, so the
\* hosts 127.0.0.1 and 127x0x0x1 never match one another.
C5_SpecificHostIsLiteral ==
    SpecificCall =>
        /\ applyHostFilter(table.lines, table.addressColumn, filter)
              = SelectSeq(table.lines, HostEquals)
        /\ call.op \in {"portToPid", "portBindings"} =>
              (NotFound <=> ~\E line \in RowsOfPort(call.port.value) : HostEquals(line))
        /\ (call.op = "portBindings" /\ result.state = "fulfilled") =>
              \A i \in 1..Len(result.value) : result.value[i].host = NormalizedForm(call.host)
        /\ (call.op = "allPortsWithPid" /\ result.state = "fulfilled") =>
              \A p \in MapKeys(result.value) : \E line \in RowsOfPort(p) : HostEquals(line)

\* C5 witness: the rows for port 80 are all on host 127x0x0x1, the call
\* asks for host 127.0.0.1, and port 80 is reported as not found.
C5_Witness ==
    /\ SpecificCall
    /\ call.op = "portToPid"
    /\ call.port = JsInt(80)
    /\ call.host = s_127_0_0_1
    /\ RowsOfPort(80) # {}
    /\ \A line \in RowsOfPort(80) : AddressOfRow(line).host = s_127x0x0x1
    /\ NotFound

\* The ports for which some row, on any interface and under any protocol,
\* has the parsed PID pid.
PortsOwnedBy(pid) ==
    {AddressOfRow(line).port : line \in {l \in Rows : PidOfRow(l) = pid}} \ {Absent}

\* C6: pidToPorts(pid) returns exactly the ports for which some row of the
\* table has the PID pid, and pidToPorts(pids) maps every requested pid to
\* that set, also when another row for the same port belongs to another
\* process.
C6_PidToPortsExact ==
    (TableReady /\ call.op = "pidToPorts" /\ result.state = "fulfilled") =>
        IF call.shape = "single"
        THEN Elements(result.value) = PortsOwnedBy(call.port.value)
        ELSE \A i \in 1..Len(call.list) :
                call.list[i].isInteger =>
                    /\ MapHas(result.value, call.list[i])
                    /\ Elements(MapGet(result.value, call.list[i]))
                          = PortsOwnedBy(call.list[i].value)

\* The process pid is the owner of port p on a row with host h, and no
\* other process has a row for p.
SoleOwner(pid, p, hosts) ==
    /\ \E line \in RowsOfPort(p) : PidOfRow(line) = pid
    /\ \A line \in RowsOfPort(p) : PidOfRow(line) = pid /\ AddressOfRow(line).host \in hosts

\* The table of the scenario: process 1 owns port 80 bound to 127.0.0.1 and
\* port 81 bound to all interfaces only.
LocalAndWildcardTable ==
    /\ TableReady
    /\ SoleOwner(1, 80, {s_127_0_0_1})
    /\ SoleOwner(1, 81, {s_star})

\* C7: on a table where process 1 owns port 80 on 127.0.0.1 and port 81 on
\* all interfaces only, allPortsWithPid() has 80 -> 1 and no key 81,
\* allPortsWithPid({host: '*'}) has both keys, and pidToPorts(1) and
\* pidToPorts([1]).get(1) both contain 80 and 81.
C7_LocalAndWildcardScenario ==
    (LocalAndWildcardTable /\ result.state = "fulfilled") =>
        /\ (call.op = "allPortsWithPid" /\ call.host = Undefined) =>
              /\ MapHas(result.value, 80)
              /\ MapGet(result.value, 80) = 1
              /\ ~MapHas(result.value, 81)
        /\ (call.op = "allPortsWithPid" /\ call.host = s_star) =>
              /\ MapHas(result.value, 80) /\ MapGet(result.value, 80) = 1
              /\ MapHas(result.value, 81) /\ MapGet(result.value, 81) = 1
        /\ (call.op = "pidToPorts" /\ call.shape = "single" /\ call.port = JsInt(1)) =>
              {80, 81} \subseteq Elements(result.value)
        /\ (call.op = "pidToPorts" /\ call.shape = "array"
              /\ \E i \in 1..Len(call.list) : call.list[i] = JsInt(1)) =>
              /\ MapHas(result.value, JsInt(1))
              /\ {80, 81} \subseteq Elements(MapGet(result.value, JsInt(1)))

\* C7 witness: pidToPorts([1]) has answered on the table of the scenario.
C7_Witness ==
    /\ LocalAndWildcardTable
    /\ call.op = "pidToPorts"
    /\ call.shape = "array"
    /\ call.list = <<JsInt(1)>>
    /\ result.state = "fulfilled"
    /\ Elements(MapGet(result.value, JsInt(1))) = {80, 81}

\* The keys of allPortsWithPid({host: '*'}) on the table of the call.
AllInterfacesKeys == MapKeys(allPortsWithPid(table, s_star))

\* C8: on the table of the call, every key of allPortsWithPid() and of
\* allPortsWithPid({host: h}) is a key of allPortsWithPid({host: '*'}), and
\* the all-interfaces map has at least as many entries.
C8_FilteredKeysWithinAllInterfaces ==
    (TableReady /\ call.op = "allPortsWithPid" /\ result.state = "fulfilled") =>
        /\ MapKeys(result.value) \subseteq AllInterfacesKeys
        /\ Len(result.value) <= Len(allPortsWithPid(table, s_star))
        /\ Cardinality(MapKeys(result.value)) = Len(result.value)

\* C8 witness: allPortsWithPid() has answered with a key, on a table where
\* the all-interfaces map has one key more.
C8_Witness ==
    /\ TableReady
    /\ call.op = "allPortsWithPid"
    /\ call.host = Undefined
    /\ result.state = "fulfilled"
    /\ Len(result.value) = 1
    /\ Cardinality(AllInterfacesKeys) = 2

\* The surviving rows for the port of the call with the given host.
SurvivorsOn(h) ==
    {line \in SurvivingRows(call.port.value, call.host) : AddressOfRow(line).host = h}

\* A call for one port whose surviving rows include a row on 127.0.0.1 and
\* a row on ::1, every one of them with a PID.
BothLoopbacks ==
    /\ TableReady
    /\ \/ call.op = "portToPid" /\ call.shape \in {"single", "options"}
       \/ call.op = "portBindings"
    /\ SurvivorsOn(s_127_0_0_1) # {}
    /\ SurvivorsOn(s_loop6) # {}
    /\ \A line \in SurvivorsOn(s_127_0_0_1) \cup SurvivorsOn(s_loop6) : PidOfRow(line) # Absent

\* C9: when the surviving rows of the port include a row on 127.0.0.1 and a
\* row on ::1, portToPid answers with the PID of a 127.0.0.1 row and
\* portBindings lists every 127.0.0.1 binding before every ::1 binding,
\* however the tool writes the address.
C9_Ipv4LoopbackFirst ==
    (BothLoopbacks /\ result.state = "fulfilled") =>
        /\ call.op = "portToPid" =>
              result.value \in {PidOfRow(line) : line \in SurvivorsOn(s_127_0_0_1)}
        /\ call.op = "portBindings" =>
              \A i, j \in 1..Len(result.value) :
                 (result.value[i].host = s_127_0_0_1 /\ result.value[j].host = s_loop6) => i < j

\* The table of the call with its rows in another order.
Reordered(f) == [table EXCEPT !.lines = [i \in 1..Len(table.lines) |-> table.lines[f[i]]]]

\* C10: the result does not depend on the order of the rows: on every
\* permutation of the table of the call, portToPid reads the same PID and
\* portBindings returns the same list in the same order.
C10_RowOrderIrrelevant ==
    (TableReady /\ result.state = "fulfilled") =>
        \A f \in Permutations(1..Len(table.lines)) :
            /\ (call.op = "portToPid" /\ call.shape \in {"single", "options"}
                  /\ slots[1].command = 0) =>
                  getPort(call.port, Reordered(f), call.host, platform.os)
                     = [kind |-> "return", error |-> NoError, value |-> result.value]
            /\ call.op = "portBindings" =>
                  portBindings(call.port, Reordered(f), call.host)
                     = [kind |-> "return", error |-> NoError, value |-> result.value]

\* The rows for the port of a portBindings call that pass its host filter.
BindingRows == SurvivingRows(call.port.value, call.host)

\* The binding a row stands for: its normalized host and its PID.
BindingOf(line) == [host |-> AddressOfRow(line).host, pid |-> PidOfRow(line)]

\* C11: the list portBindings returns has no two entries with the same host
\* and PID, also when the rows list a socket under TCP and UDP or twice, and
\* every row for the port that passes the filter and has a PID is in the
\* list with its normalized host and PID.
C11_BindingsDistinctAndComplete ==
    (TableReady /\ call.op = "portBindings" /\ result.state = "fulfilled") =>
        /\ \A i, j \in 1..Len(result.value) :
              (/\ result.value[i].host = result.value[j].host
               /\ result.value[i].pid = result.value[j].pid) => i = j
        /\ \A line \in BindingRows :
              PidOfRow(line) # Absent =>
                 \E i \in 1..Len(result.value) : result.value[i] = BindingOf(line)
        /\ \A i \in 1..Len(result.value) :
              \E line \in BindingRows : result.value[i] = BindingOf(line)

\* C11 witness: the table lists 127.0.0.1:80 of one process under TCP and
\* under UDP (two different rows), and portBindings(80, {host: '*'}) returns
\* the one binding.
C11_Witness ==
    /\ TableReady
    /\ call.op = "portBindings"
    /\ call.host = s_star
    /\ Len(table.lines) = 2
    /\ table.lines[1] # table.lines[2]
    /\ BindingRows = Rows
    /\ PidOfRow(table.lines[1]) # Absent
    /\ BindingOf(table.lines[1]) = BindingOf(table.lines[2])
    /\ result.state = "fulfilled"
    /\ result.value = <<BindingOf(table.lines[1])>>

\* The positions of the localhost bindings and of the other bindings in the
\* list a portBindings call returned.
LocalhostIndexes == {i \in 1..Len(result.value) : IsLocalHost(result.value[i].host)}
OtherIndexes == (1..Len(result.value)) \ LocalhostIndexes

\* C12: in the list of portBindings(port, {host: '*'}) localhost comes
\* first: when the list has a binding on 127.0.0.1 or ::1 and a binding on
\* another host, the first of the former stands before the first of the
\* latter.
C12_LocalhostBindingsFirst ==
    (TableReady /\ call.op = "portBindings" /\ call.host = s_star
        /\ result.state = "fulfilled"
        /\ LocalhostIndexes # {} /\ OtherIndexes # {}) =>
        \E i \in LocalhostIndexes : \A j \in OtherIndexes : i < j

\* The enumeration commands (not lsof) the call has started.
EnumerationsStarted == SelectSeq(started, LAMBDA c : c.exe # "lsof")

\* What portToPid(port) with the default filter gives on the table of the
\* call: the PID read from the table, or what the fallback reads from one of
\* the outputs lsof may print for the port; nothing when it is rejected.
SinglePortValues(port) ==
    LET single == getPort(port, table, Undefined, platform.os) IN
    IF single.kind = "return" THEN {single.value}
    ELSE IF single.kind = "await"
    THEN {getPortAfterFallback(port, exit) : exit \in LsofExitsOf[port.value]}
    ELSE {}

\* C13: a call with a list runs the enumeration of the platform (two
\* commands on macOS, one elsewhere) exactly once, whatever the length of
\* the list, and resolves every element on the one table it got:
\* portToPid(ports) maps each port to what portToPid(port) gives on that
\* table, and pidToPorts(pids) each pid to what pidToPorts(pid) gives on it.
C13_OneSharedTable ==
    (call.shape = "array" /\ call.op \in {"portToPid", "pidToPorts"} /\ ~InvalidArguments) =>
        /\ Len(EnumerationsStarted) = (IF platform.os = "darwin" THEN 2 ELSE 1)
        /\ \A i, j \in 1..Len(EnumerationsStarted) :
              EnumerationsStarted[i] = EnumerationsStarted[j] => i = j
        /\ (call.op = "portToPid" /\ result.state = "fulfilled") =>
              /\ TableReady
              /\ MapKeys(result.value) = {call.list[i].value : i \in 1..Len(call.list)}
              /\ \A i \in 1..Len(call.list) :
                    MapGet(result.value, call.list[i].value) \in SinglePortValues(call.list[i])
        /\ (call.op = "pidToPorts" /\ result.state = "fulfilled") =>
              /\ TableReady
              /\ MapKeys(result.value) = {call.list[i] : i \in 1..Len(call.list)}
              /\ \A i \in 1..Len(call.list) :
                    MapGet(result.value, call.list[i])
                       = MapGet(getPidsToPortsMap(<<call.list[i]>>, table), call.list[i])

\* C13 witness: portToPid([80, 81]) has answered with both ports after a
\* single enumeration, the PID of port 80 being read from the table.
C13_Witness ==
    /\ TableReady
    /\ call.op = "portToPid"
    /\ call.list = <<JsInt(80), JsInt(81)>>
    /\ result.state = "fulfilled"
    /\ MapKeys(result.value) = {80, 81}
    /\ MapGet(result.value, 80) = 1
    /\ Len(EnumerationsStarted) = Len(PrimaryCommands(platform.os))

\* The positions of the list of ports whose port has no row that passes the
\* default filter.
NotFoundPositions == {i \in 1..Len(call.list) : SurvivingRows(call.list[i].value, Undefined) = {}}

\* C14: portToPid(ports) is rejected exactly when some port of the list is
\* not found, at once and with the not-found error of the first such port in
\* list order, whether or not other ports still wait for their fallback
\* command; otherwise it is never rejected and, once no fallback is awaited,
\* fulfilled with a map that has every port of the list.
C14_ListFailsOnFirstMissingPort ==
    (TableReady /\ call.op = "portToPid" /\ call.shape = "array") =>
        IF NotFoundPositions # {}
        THEN LET first == CHOOSE i \in NotFoundPositions : \A j \in NotFoundPositions : i <= j
             IN  /\ pc = "done"
                 /\ result = Rejected(Error(NotFoundMessage("a process that uses",
                                                           call.list[first].value, Undefined)))
        ELSE /\ result.state # "rejected"
             /\ (\A i \in 1..Len(slots) : slots[i].state # "waiting") =>
                   /\ result.state = "fulfilled"
                   /\ MapKeys(result.value) = {call.list[i].value : i \in 1..Len(call.list)}

\* C14 witness: portToPid([81, 80]) where port 81 has a row without a PID
\* and waits for lsof, and port 80 has no localhost row: the call is
\* rejected for port 80 while lsof is still running.
C14_Witness ==
    /\ TableReady
    /\ call.op = "portToPid"
    /\ call.list = <<JsInt(81), JsInt(80)>>
    /\ slots[1].state = "waiting"
    /\ running # {}
    /\ result = Rejected(Error(NotFoundMessage("a process that uses", 80, Undefined)))

\* A portToPid call for one port, some row for the port passing its filter.
OnePortWithRow ==
    /\ TableReady
    /\ call.op = "portToPid"
    /\ call.shape \in {"single", "options"}
    /\ SurvivingRows(call.port.value, call.host) # {}

\* No row for the port that passes the filter shows its owner, so the first
\* row after sorting shows none.
OwnerHidden ==
    \A line \in SurvivingRows(call.port.value, call.host) : PidOfRow(line) = Absent

\* The fallback command gave no PID for the port: it failed, or its output
\* has no PID for it.
NoPidFrom(exit, port) == ~exit.ok \/ FallbackPid(exit.stdout, port) = Absent

\* The call is not rejected, and where the platform has no fallback and
\* the owner is hidden it is fulfilled with the absent value.
HiddenOwnerIsNoError ==
    OnePortWithRow =>
        /\ result.state # "rejected"
        /\ pc = "done" => result.state = "fulfilled"
        /\ (OwnerHidden /\ platform.os \notin {"darwin", "linux"}) => result = Fulfilled(Absent)
        /\ (OwnerHidden /\ platform.os \in {"darwin", "linux"} /\ result.state = "pending") =>
              slots[1].state = "waiting"

\* When the fallback of the call exits without a PID the call is fulfilled
\* with the absent value.
FallbackWithoutPidGivesAbsent ==
    \A i \in running, exit \in AllLsofExits :
        (/\ OnePortWithRow
         /\ pc = "fallback"
         /\ NoPidFrom(exit, call.port.value)
         /\ FallbackExit(i, exit)) => result' = Fulfilled(Absent)

PrimaryFailed ==
    /\ table = NoTable
    /\ \E i \in 1..Len(started) :
          started[i].exe # "lsof" /\ i \notin running /\ i \notin DOMAIN outputs

\* The failure of a primary command, of either one on macOS, rejects the
\* call with that failure, whatever the operation, and no other failure of a
\* command reaches the caller.
PrimaryFailureReachesCaller ==
    /\ PrimaryFailed => (pc = "done" /\ result = Rejected(CommandFailed))
    /\ result.error.name = "ExecaError" => PrimaryFailed

\* When lsof fails the port it was run for gets the absent value, as on a
\* platform without fallback, and the call is not rejected by it: a call for
\* one port is fulfilled with the absent value.
FallbackFailureIsSwallowed ==
    \A i \in running :
        LET exit == [ok |-> FALSE, stdout |-> <<>>] IN
        FallbackExit(i, exit) =>
            /\ \A j \in 1..Len(slots) :
                  slots[j].command = i =>
                     (slots'[j].state = "fulfilled" /\ slots'[j].value = Absent)
            /\ result'.state = "rejected" => result' = result
            /\ (pc = "fallback" /\ call.shape # "array") => result' = Fulfilled(Absent)

\* C16: a command failure reaches the caller if and only if it is a failure
\* of the primary enumeration: when a primary command fails (either of the
\* two on macOS) every operation is rejected with that failure; when the
\* fallback command fails portToPid is not rejected and gives the absent
\* value, as if there were no fallback.
C16_OnlyPrimaryFailureReachesCaller ==
    []PrimaryFailureReachesCaller /\ [][FallbackFailureIsSwallowed]_vars

\* C16 witness: on macOS the first netstat has printed its rows and the
\* second has failed, and the call is rejected with the failure.
C16_Witness ==
    /\ platform.os = "darwin"
    /\ DOMAIN outputs = {1}
    /\ 2 \notin running
    /\ PrimaryFailed
    /\ result = Rejected(CommandFailed)

\* The fallback commands the call has started, by position in started.
FallbacksStarted == {i \in 1..Len(started) : started[i].exe = "lsof"}

\* The positions of the requested ports (one for a single port) and, for
\* each, the fallback commands started for it.
RequestPositions == 1..Len(RequestedPorts(call))
FallbacksOf(k) == {i \in FallbacksStarted : k <= Len(slots) /\ slots[k].command = i}

\* The port at position k has a row that passes the filter, and its rows
\* that pass the filter do not all show an owner.
SomeOwnerHidden(k) ==
    \E line \in SurvivingRows(RequestedPorts(call)[k].value, call.host) : PidOfRow(line) = Absent

\* C17: a fallback command is started only by portToPid, only on macOS or
\* Linux, only once the primary enumeration has completed, and only for a
\* requested port that has a row passing the host filter and whose first
\* sorted row shows no PID; at most one is started for each requested port
\* of the call, none for a port that was rejected (invalid or not found),
\* and none when the first row's PID is read.
C17_FallbackOnlyForHiddenOwner ==
    /\ FallbacksStarted # {} =>
          /\ call.op = "portToPid"
          /\ platform.os \in {"darwin", "linux"}
          /\ TableReady
          /\ DOMAIN outputs = 1..Len(PrimaryCommands(platform.os))
          /\ \A i \in running : started[i].exe = "lsof"
          /\ \A i \in FallbacksStarted :
                /\ i > Len(PrimaryCommands(platform.os))
                /\ \E k \in RequestPositions :
                      /\ FallbacksOf(k) = {i}
                      /\ started[i].args = <<"-nP", "-i", ":" \o ToString(RequestedPorts(call)[k].value)>>
                      /\ SomeOwnerHidden(k)
                      /\ getPort(RequestedPorts(call)[k], table, call.host, platform.os).kind = "await"
          /\ Cardinality(FallbacksStarted) <= Len(RequestedPorts(call))
    /\ (TableReady /\ call.op = "portToPid") =>
          \A k \in RequestPositions :
             /\ Cardinality(FallbacksOf(k)) <= 1
             /\ slots[k].state = "rejected" => FallbacksOf(k) = {}
             /\ ~SomeOwnerHidden(k) => FallbacksOf(k) = {}
             /\ getPort(RequestedPorts(call)[k], table, call.host, platform.os).kind # "await"
                   => FallbacksOf(k) = {}
    /\ call.op \in {"allPortsWithPid", "pidToPorts", "portBindings"} => FallbacksStarted = {}
    /\ (InvalidArguments \/ ~TableReady) => FallbacksStarted = {}

\* C17 witness: portToPid for a list in which port 81 shows no owner has
\* started one lsof for it, after the enumeration, and none for port 80
\* whose PID was read from the table.
C17_Witness ==
    /\ TableReady
    /\ call.op = "portToPid"
    /\ call.list = <<JsInt(80), JsInt(81)>>
    /\ slots[1].state = "fulfilled" /\ slots[1].command = 0
    /\ slots[2].command # 0
    /\ Cardinality(FallbacksStarted) = 1
    /\ started[slots[2].command] = lsofFallback(81)

\* The text has no enclosing pair of brackets.
BracketFree(h) == ~(StartsWith(h, <<"[">>) /\ EndsWith(h, <<"]">>))

\* C18: host normalization is idempotent, normalize(normalize(h)) =
\* normalize(h), for every host text, bracketed once or several times
\* included; localhost and ::ffff:127.0.0.1 normalize to 127.0.0.1, :: to
\* '*', and every other bracket-free host to itself.
C18_NormalizeIdempotent ==
    /\ Len(slots) >= 1 =>
          slots[1] = (IF call.host \in {s_localhost, s_mapped} THEN s_127_0_0_1
                      ELSE IF call.host = s_any6 THEN s_star
                      ELSE IF BracketFree(call.host) THEN call.host
                      ELSE slots[1])
    /\ Len(slots) >= 2 => slots[2] = slots[1]

\* The row passes the filter asked for by the host of the call.
RowPasses(line) ==
    IF call.host = Undefined THEN IsLocalHost(AddressOfRow(line).host)
    ELSE IF call.host \in WildcardHosts THEN TRUE
    ELSE AddressOfRow(line).host = NormalizedForm(call.host)

\* The rows that pass the filter and have both a port and a PID.
CompleteRows ==
    {line \in Rows : RowPasses(line) /\ AddressOfRow(line).port # Absent
                                      /\ PidOfRow(line) # Absent}

\* C19: allPortsWithPid is fulfilled whatever the rows contain; its keys
\* are exactly the ports of the rows that pass the host filter and have
\* both a parseable port and a parseable PID, every key and every value is a
\* number, and each value is the PID of such a row for its key: a row that
\* lacks the port or the PID adds nothing and changes no entry.
C19_OnlyCompleteRowsCount ==
    (TableReady /\ call.op = "allPortsWithPid") =>
        /\ pc = "done"
        /\ result.state = "fulfilled"
        /\ MapKeys(result.value) = {AddressOfRow(line).port : line \in CompleteRows}
        /\ Cardinality(MapKeys(result.value)) = Len(result.value)
        /\ \A i \in 1..Len(result.value) :
              /\ result.value[i][1] \in Nat
              /\ result.value[i][2] \in Nat
              /\ \E line \in CompleteRows :
                    /\ AddressOfRow(line).port = result.value[i][1]
                    /\ PidOfRow(line) = result.value[i][2]

\* C19 witness: allPortsWithPid({host: '*'}) on a table whose first row has
\* a port and a PID, and whose second row, for the same port or without a
\* port, lacks one of the two: the map has the entry of the first row only.
C19_Witness ==
    /\ TableReady
    /\ call.op = "allPortsWithPid"
    /\ call.host = s_star
    /\ Len(table.lines) = 2
    /\ table.lines[1] \in CompleteRows
    /\ table.lines[2] \notin CompleteRows
    /\ AddressOfRow(table.lines[2]).port \in {Absent, AddressOfRow(table.lines[1]).port}
    /\ result = Fulfilled(<<<<AddressOfRow(table.lines[1]).port, PidOfRow(table.lines[1])>>>>)

\* What portToPid({port, host: '*'}) gives for the port on the table of the call.
ResolvedOnAllInterfaces(port) == getPort(JsInt(port), table, s_star, platform.os)

\* C20: every port that is a key of the map of allPortsWithPid() (default
\* filter) is resolved by portToPid({port, host: '*'}) on the same table:
\* the call is not rejected, and what it returns from the table is a number,
\* not undefined (where it turns to lsof the table does not decide the value).
C20_EveryKeyResolves ==
    (TableReady /\ call.op = "allPortsWithPid" /\ call.host = Undefined
                /\ result.state = "fulfilled") =>
        \A port \in MapKeys(result.value) :
            /\ ResolvedOnAllInterfaces(port).kind # "throw"
            /\ ResolvedOnAllInterfaces(port).kind = "return" =>
                  ResolvedOnAllInterfaces(port).value \in Nat

\* The positions of the list of a pidToPorts(pids) call whose element is not
\* an integer.
BadPidPositions == {i \in 1..Len(call.list) : validatePid(call.list[i]) # NoError}

\* C21: pidToPorts(pids) validates each element of the list as
\* pidToPorts(pid) validates its argument: with an element that is not an
\* integer the call is rejected with the validation error of the first such
\* element, no command was started, and no map is returned.
C21_PidListValidated ==
    (call.op = "pidToPorts" /\ call.shape = "array" /\ BadPidPositions # {}) =>
        /\ pc = "done"
        /\ started = <<>>
        /\ result = Rejected(validatePid(
                        call.list[CHOOSE i \in BadPidPositions :
                                      \A j \in BadPidPositions : i <= j]))

\* The rows of the table that the host filter f lets through.
RowsConsidered(f) == applyHostFilter(table.lines, table.addressColumn, f)

\* C22: host 'localhost' is the localhost filter said aloud: portToPid,
\* allPortsWithPid and portBindings called with host 'localhost' consider the
\* rows the same call considers with no host, those on 127.0.0.1 or ::1.
C22_LocalhostKeywordIsDefault ==
    (TableReady /\ call.host = s_localhost
                /\ call.op \in {"portToPid", "allPortsWithPid", "portBindings"}) =>
        /\ RowsConsidered(filter) = RowsConsidered(createHostFilter(Undefined))
        /\ \A i \in 1..Len(RowsConsidered(filter)) :
              IsLocalHost(AddressOfRow(RowsConsidered(filter)[i]).host)

\* The running call holds the table built from the output of its own commands.
OwnTable ==
    TableReady =>
        /\ DOMAIN outputs = 1..Len(PrimaryCommands(platform.os))
        /\ table = getList(platform.os, outputs)

\* The promise of the i-th listed port is what getPort gives for that port
\* alone on the table of the call (and, past the fallback, on an lsof output).
SlotAsAlone(i) ==
    LET alone == getPort(call.list[i], table, call.host, platform.os) IN
    IF alone.kind = "throw"
    THEN slots[i].state = "rejected" /\ slots[i].error = alone.error
    ELSE IF alone.kind = "return"
    THEN slots[i].state = "fulfilled" /\ slots[i].value = alone.value
    ELSE \/ slots[i].state = "waiting"
         \/ /\ slots[i].state = "fulfilled"
            /\ \E exit \in LsofExitsOf[call.list[i].value] :
                  slots[i].value = getPortAfterFallback(call.list[i], exit)

\* The running call has the result it has when run alone on its table.
ResultAsAlone ==
    /\ (TableReady /\ call.op = "allPortsWithPid") =>
          result = Fulfilled(allPortsWithPid(table, call.host))
    /\ (TableReady /\ call.op = "portToPid") =>
          /\ Len(slots) = Len(call.list)
          /\ \A i \in 1..Len(slots) : SlotAsAlone(i)
          /\ result = Settle(call, slots)

\* A step of the running call leaves the other call as it is, the table of
\* the running call as it is once built, and settles at most one promise; a
\* turn of the event loop exchanges the two calls and changes neither.
StepTouchesOwnStateOnly ==
    IF platform'.parked = platform.parked
    THEN TableReady =>
            /\ table' = table
            /\ Len(slots') = Len(slots)
            /\ Cardinality({j \in 1..Len(slots) : slots'[j] # slots[j]}) <= 1
    ELSE /\ platform'.parked = Current
         /\ Current' = platform.parked

TargetPorts == {1, 8, 80, 81}

\* The rows among lines whose parsed port is p, in order.
RowsWithParsedPort(lines, p) ==
    SelectSeq(lines, LAMBDA line : AddressOfRow(line).port = p)

LastSeparator(token) ==
    LET at == {k \in 1..Len(token) : token[k] \in {".", ":"}} IN
    IF at = {} THEN 0 ELSE CHOOSE k \in at : \A m \in at : m <= k

\* A non-empty run of digits stands between position k and the token's end.
DigitsToEndAfter(token, k) ==
    k < Len(token) /\ \A j \in (k + 1)..Len(token) : IsDigit(token[j])

\* The token cut at position k: the host before it, the port after it.
CutAt(token, k) ==
    [host |-> normalizeHost(SubSeq(token, 1, k - 1)),
     port |-> ParseInt(SubSeq(token, k + 1, Len(token)))]

\* The token as a host without a port.
Uncut(token) == [host |-> normalizeHost(token), port |-> Absent]

\* C25 (as stated): parseAddress cuts the token at its last '.' or ':' when
\* a non-empty run of digits stands between that separator and the end: the
\* port is that run, the host the normalized text before the separator;
\* otherwise the port is absent and the host the whole token, normalized.
C25_CutAtLastSeparator ==
    pc = "parsed" =>
        LET k == LastSeparator(call.host) IN
        IF k > 0 /\ DigitsToEndAfter(call.host, k)
        THEN slots[1] = CutAt(call.host, k)
        ELSE slots[1] = Uncut(call.host)

\* C25 (amended): as stated, for a separator that is not the first character
\* of the token; a token that begins with its last separator is not cut.
C25_CutAtLastSeparatorAfterHost ==
    pc = "parsed" =>
        LET k == LastSeparator(call.host) IN
        IF k > 1 /\ DigitsToEndAfter(call.host, k)
        THEN slots[1] = CutAt(call.host, k)
        ELSE slots[1] = Uncut(call.host)

\* C25 witness: '::1:80' is cut at its last colon, not at its first.
C25_Witness ==
    /\ pc = "parsed"
    /\ call.host = s_loop6 \o <<":", "8", "0">>
    /\ slots = <<[host |-> s_loop6, port |-> 80]>>

\* tcp and udp in every letter case.
ProtocolSpellings ==
    {<<a, b, c>> : a \in {"t", "T"}, b \in {"c", "C"}, c \in {"p", "P"}}
        \cup {<<a, b, c>> : a \in {"u", "U"}, b \in {"d", "D"}, c \in {"p", "P"}}

\* The lines of the enumeration output whose first text begins with tcp or udp.
ProtocolLinesOfOutput ==
    SelectSeq(IF Len(PrimaryCommands(platform.os)) = 2
              THEN outputs[1] \o outputs[2] ELSE outputs[1],
              LAMBDA line : /\ line # <<>>
                            /\ Len(line[1]) >= 3
                            /\ SubSeq(line[1], 1, 3) \in ProtocolSpellings)

\* Rows with fewer tokens than the address column needs, and rows with fewer
\* tokens than the address or the PID column needs.
RowsWithoutAddress == {line \in Rows : Len(line) <= table.addressColumn}
ShortRows == {line \in Rows : Len(line) <= table.addressColumn \/ Len(line) <= table.pidColumn}

\* The table of the call without the rows in gone.
TableWithout(gone) ==
    [table EXCEPT !.lines = SelectSeq(table.lines, LAMBDA line : line \notin gone)]

\* What the call computes from a table: the outcome of getPort for each
\* requested port up to the fallback, the map, the sets, the bindings.
ComputedFrom(list) ==
    IF call.op = "portToPid"
    THEN [i \in 1..Len(RequestedPorts(call)) |->
             getPort(RequestedPorts(call)[i], list, call.host, platform.os)]
    ELSE IF call.op = "pidToPorts" THEN getPidsToPortsMap(RequestedPorts(call), list)
    ELSE IF call.op = "allPortsWithPid" THEN allPortsWithPid(list, call.host)
    ELSE portBindings(call.port, list, call.host)

\* The table holds exactly the protocol lines of the output, and a call that
\* has its table fails with the not-found error only.
ParserKeepsProtocolLines ==
    /\ table.lines = ProtocolLinesOfOutput
    /\ \A line \in ShortRows :
          \/ AddressOfRow(line) = [host |-> Undefined, port |-> Absent]
          \/ PidOfRow(line) = Absent
    /\ result.state = "rejected" => result.error.name = "Error"

SelectedFor(port) == getPort(JsInt(port), table, call.host, platform.os)

\* C27: every entry port -> pid of allPortsWithPid({host: h}) has the PID
\* that portToPid({port, host: h}) reads from the same table for that port,
\* the PID of the first sorted row, also when the port has rows of several
\* owners.
C27_SingleOwnerViewsAgree ==
    (TableReady /\ call.op = "allPortsWithPid" /\ result.state = "fulfilled") =>
        \A port \in MapKeys(result.value) :
            SelectedFor(port).kind = "return" =>
                SelectedFor(port).value = MapGet(result.value, port)

\* The owners of sockets on port p whose host passes the filter asked for by
\* the host of the call: those the table shows and, when lsof was asked, the
\* one LsofListing lists on the port (pid 7, bound to 127.0.0.1; its other
\* process line has no socket on the port).
OwnersOnPort(p, askedLsof) ==
    {PidOfRow(line) : line \in SurvivingRows(p, call.host)}
        \cup (IF askedLsof /\ (call.host = Undefined \/ call.host \in WildcardHosts
                                \/ NormalizedForm(call.host) = s_127_0_0_1)
              THEN {7} ELSE {})

\* C28: every PID portToPid returns for a port, read from the table or from
\* the fallback, is the PID of a process with a socket on that port whose
\* host passes the host filter of the call.
C28_ReturnedPidPassesFilter ==
    (TableReady /\ call.op = "portToPid") =>
        \A i \in 1..Len(slots) :
            (slots[i].state = "fulfilled" /\ slots[i].value # Absent) =>
                slots[i].value \in OwnersOnPort(slots[i].port.value, slots[i].command # 0)

\* C29: portBindings ends with the not-found error or with a list that is
\* not empty: when a row for the port passes the host filter the list has
\* an entry, and the pid of every entry is an integer.
C29_BindingsNeverEmpty ==
    (TableReady /\ call.op = "portBindings") =>
        /\ pc = "done"
        /\ result.state = "rejected" =>
              /\ result.error.name = "Error"
              /\ SurvivingRows(call.port.value, call.host) = {}
        /\ result.state = "fulfilled" =>
              /\ Len(result.value) >= 1
              /\ \A i \in 1..Len(result.value) : result.value[i].pid \in Nat

\* The promises of ports for which lsof has exited.
AnsweredByFallback ==
    {i \in 1..Len(slots) : slots[i].command # 0 /\ slots[i].state = "fulfilled"}

\* C30: what portToPid returns after the fallback is the PID of the process
\* line lsof printed for the port (LsofListing: 'node 7 ... 127.0.0.1:PORT
\* (LISTEN)', PID in the second column), or nothing when lsof failed: never
\* a number of another line or of another column.
C30_FallbackReadsPidColumn ==
    (TableReady /\ call.op = "portToPid") =>
        \A i \in AnsweredByFallback : slots[i].value \in {7, Absent}

====
